---- MODULE Spec2Model ----
(***************************************************************************)
(* A model of the tool dispatch registry of SuperManus:                   *)
(* class ToolSchemaSystem of src/src/core/PatchDiffEngine.ts.             *)
(*                                                                         *)
(* The registry keeps two JavaScript Maps, tools (name -> ToolSchema) and  *)
(* handlers (name -> async closure).  registerTool writes both,            *)
(* getTools / getTool read the first, executeTool looks a handler up,      *)
(* awaits it inside a try/catch and wraps what happened into a ToolResult, *)
(* validateParameters checks the presence of the required parameters.      *)
(***************************************************************************)
EXTENDS Integers, Sequences, FiniteSets, Bags, TLC

(***************************************************************************)
(* JavaScript values.  Every value is a record with one field that names   *)
(* its type, so that values of different types can be compared.  The       *)
(* universe is JSON-like data plus Error instances.                        *)
(***************************************************************************)
Undefined == [undefined |-> TRUE]
Null      == [null |-> TRUE]
Str(s)    == [string |-> s]
Num(n)    == [number |-> n]
Bool(b)   == [boolean |-> b]
Arr(s)    == [array |-> s]
Obj(f)    == [object |-> f]
\* new Error(m) / a TypeError raised by the engine: an Error instance whose
\* message is m
Err(m)    == [error |-> m]
\* a closure, named by the code it runs
Fn(f)     == [function |-> f]

IsNullish(v) == v = Undefined \/ v = Null
IsObject(v)  == "object" \in DOMAIN v
IsError(v)   == "error" \in DOMAIN v

\* The property names every ordinary object inherits from Object.prototype.
ObjectPrototypeKeys ==
    {"constructor", "hasOwnProperty", "isPrototypeOf", "propertyIsEnumerable",
     "toLocaleString", "toString", "valueOf", "__proto__"}

\* The message of the TypeError the engine raises on reading property k of
\* null or undefined (V8's wording).
TypeErrorRead(v, k) ==
    "Cannot read properties of "
        \o (IF v = Null THEN "null" ELSE "undefined")
        \o " (reading '" \o k \o "')"

\* The message of the TypeError the engine raises on `k in v` when v is not
\* an object (V8's wording).
TypeErrorIn(v, k) ==
    "Cannot use 'in' operator to search for '" \o k \o "' in "
        \o (IF v = Null THEN "null"
            ELSE IF v = Undefined THEN "undefined"
            ELSE IF "string" \in DOMAIN v THEN v.string
            ELSE IF "number" \in DOMAIN v THEN ToString(v.number)
            ELSE "value")

\* String(v), the conversion executeTool applies to a thrown value that is
\* not an Error.
String(v) ==
    IF "string" \in DOMAIN v THEN v.string
    ELSE IF "number" \in DOMAIN v THEN ToString(v.number)
    ELSE IF "boolean" \in DOMAIN v THEN (IF v.boolean THEN "true" ELSE "false")
    ELSE IF v = Undefined THEN "undefined"
    ELSE IF v = Null THEN "null"
    ELSE IF IsError(v) THEN "Error: " \o v.error
    ELSE IF "function" \in DOMAIN v THEN "function"
    ELSE "[object Object]"

\* o.k for a property k that is not inherited: the own property, undefined
\* when it is absent or o is a primitive.  Reading a property of null or
\* undefined raises; the callers test IsNullish first.
GetProp(o, k) ==
    IF IsObject(o) /\ k \in DOMAIN o.object THEN o.object[k] ELSE Undefined

\* `k in o` for an object o: own and inherited property names.
HasProperty(o, k) ==
    k \in DOMAIN o.object \/ k \in ObjectPrototypeKeys

(***************************************************************************)
(* A JavaScript Map: a sequence of entries in insertion order.  set on a   *)
(* key the Map already has replaces the value in place and keeps the       *)
(* entry's position.                                                       *)
(***************************************************************************)
EmptyMap == <<>>

MapHas(m, k) == \E i \in 1..Len(m) : m[i].key = k

MapIndex(m, k) == CHOOSE i \in 1..Len(m) : m[i].key = k

MapGet(m, k) == IF MapHas(m, k) THEN m[MapIndex(m, k)].value ELSE Undefined

\* MapSet with the bug "an existing key keeps its old value"
MapSet_keepFirst(m, k, v) ==
    IF MapHas(m, k) THEN m ELSE Append(m, [key |-> k, value |-> v])

\* MapSet with the bug "every set adds an entry"
MapSet_alwaysAppend(m, k, v) == Append(m, [key |-> k, value |-> v])

\* MapSet with the bug "set on an existing key moves the entry to the end"
MapSet_moveToEnd(m, k, v) ==
    Append(SelectSeq(m, LAMBDA e : e.key # k), [key |-> k, value |-> v])

MapSet(m, k, v) ==
    IF MapHas(m, k)
    THEN [m EXCEPT ![MapIndex(m, k)] = [key |-> k, value |-> v]]
    ELSE Append(m, [key |-> k, value |-> v])

MapValues(m) == [i \in 1..Len(m) |-> m[i].value]

MapKeys(m) == {m[i].key : i \in 1..Len(m)}

(***************************************************************************)
(* The default tools of registerDefaultTools, in the order the constructor *)
(* registers them.                                                         *)
(***************************************************************************)
Prop(type, description) == [type |-> type, description |-> description]

PropDefault(type, description, default) ==
    [type |-> type, description |-> description, default |-> default]

ExecuteCommandSchema ==
    [name |-> "execute_command",
     description |-> "Execute a shell command",
     parameters |->
        [type |-> "object",
         properties |->
            [command |-> Prop("string", "The command to execute"),
             workingDir |-> Prop("string", "Working directory for the command")],
         required |-> <<"command">>]]

WriteFileSchema ==
    [name |-> "write_file",
     description |-> "Write content to a file",
     parameters |->
        [type |-> "object",
         properties |->
            [path |-> Prop("string", "File path"),
             content |-> Prop("string", "File content"),
             overwrite |-> PropDefault("boolean", "Overwrite existing file",
                                       Bool(TRUE))],
         required |-> <<"path", "content">>]]

ReadFileSchema ==
    [name |-> "read_file",
     description |-> "Read content from a file",
     parameters |->
        [type |-> "object",
         properties |-> [path |-> Prop("string", "File path")],
         required |-> <<"path">>]]

DeleteFileSchema ==
    [name |-> "delete_file",
     description |-> "Delete a file",
     parameters |->
        [type |-> "object",
         properties |-> [path |-> Prop("string", "File path")],
         required |-> <<"path">>]]

ListDirectorySchema ==
    [name |-> "list_directory",
     description |-> "List contents of a directory",
     parameters |->
        [type |-> "object",
         properties |->
            [path |-> Prop("string", "Directory path"),
             recursive |-> PropDefault("boolean", "List recursively",
                                       Bool(FALSE))],
         required |-> <<"path">>]]

BrowserNavigateSchema ==
    [name |-> "browser_navigate",
     description |-> "Navigate browser to a URL",
     parameters |->
        [type |-> "object",
         properties |-> [url |-> Prop("string", "URL to navigate to")],
         required |-> <<"url">>]]

BrowserClickSchema ==
    [name |-> "browser_click",
     description |-> "Click an element on the page",
     parameters |->
        [type |-> "object",
         properties |->
            [selector |-> Prop("string", "CSS selector for the element")],
         required |-> <<"selector">>]]

BrowserScrapeSchema ==
    [name |-> "browser_scrape",
     description |-> "Scrape content from a webpage",
     parameters |->
        [type |-> "object",
         properties |->
            [url |-> Prop("string", "URL to scrape"),
             selector |-> Prop("string", "CSS selector to scrape (optional)")],
         required |-> <<"url">>]]

WebSearchSchema ==
    [name |-> "web_search",
     description |-> "Search the web",
     parameters |->
        [type |-> "object",
         properties |->
            [query |-> Prop("string", "Search query"),
             numResults |-> PropDefault("number", "Number of results",
                                        Num(10))],
         required |-> <<"query">>]]

EditCodeSchema ==
    [name |-> "edit_code",
     description |-> "Edit code using surgical patch operations",
     parameters |->
        [type |-> "object",
         properties |->
            [path |-> Prop("string", "File path"),
             operation |->
                [type |-> "string",
                 description |-> "Operation type: replace, insert, delete",
                 enum |-> <<"replace", "insert", "delete">>],
             oldValue |-> Prop("string", "Old value to replace/delete"),
             newValue |-> Prop("string", "New value to insert")],
         required |-> <<"path", "operation">>]]

GitCloneSchema ==
    [name |-> "git_clone",
     description |-> "Clone a git repository",
     parameters |->
        [type |-> "object",
         properties |->
            [url |-> Prop("string", "Repository URL"),
             path |-> Prop("string", "Destination path")],
         required |-> <<"url", "path">>]]

GitCommitSchema ==
    [name |-> "git_commit",
     description |-> "Commit changes",
     parameters |->
        [type |-> "object",
         properties |-> [message |-> Prop("string", "Commit message")],
         required |-> <<"message">>]]

\* expo_build declares no `required` key at all
ExpoBuildSchema ==
    [name |-> "expo_build",
     description |-> "Build Expo app for Android",
     parameters |->
        [type |-> "object",
         properties |->
            [profile |->
                [type |-> "string",
                 description |-> "Build profile",
                 enum |-> <<"preview", "production">>,
                 default |-> Str("preview")]]]]

DefaultTools ==
    << [schema |-> ExecuteCommandSchema,  handler |-> Fn("executeCommandHandler")],
       [schema |-> WriteFileSchema,       handler |-> Fn("writeFileHandler")],
       [schema |-> ReadFileSchema,        handler |-> Fn("readFileHandler")],
       [schema |-> DeleteFileSchema,      handler |-> Fn("deleteFileHandler")],
       [schema |-> ListDirectorySchema,   handler |-> Fn("listDirectoryHandler")],
       [schema |-> BrowserNavigateSchema, handler |-> Fn("browserNavigateHandler")],
       [schema |-> BrowserClickSchema,    handler |-> Fn("browserClickHandler")],
       [schema |-> BrowserScrapeSchema,   handler |-> Fn("browserScrapeHandler")],
       [schema |-> WebSearchSchema,       handler |-> Fn("webSearchHandler")],
       [schema |-> EditCodeSchema,        handler |-> Fn("editCodeHandler")],
       [schema |-> GitCloneSchema,        handler |-> Fn("gitCloneHandler")],
       [schema |-> GitCommitSchema,       handler |-> Fn("gitCommitHandler")],
       [schema |-> ExpoBuildSchema,       handler |-> Fn("expoBuildHandler")] >>

(***************************************************************************)
(* What a call of a handler does: it throws synchronously, or it returns a *)
(* promise that is later fulfilled with a value or rejected with one.      *)
(***************************************************************************)
Fulfil(v) == [kind |-> "fulfilled", value |-> v]
Reject(e) == [kind |-> "rejected", value |-> e]
Throw(e)  == [kind |-> "throw", value |-> e]

\* The handler implementations of the class.  They are async methods, so a
\* TypeError raised in their body rejects the promise they return.
executeCommandHandler(params) ==
    Fulfil(Obj([output |-> Str("Command executed"), exitCode |-> Num(0)]))

writeFileHandler(params) ==
    IF IsNullish(params) THEN Reject(Err(TypeErrorRead(params, "path")))
    ELSE Fulfil(Obj([success |-> Bool(TRUE), path |-> GetProp(params, "path")]))

readFileHandler(params) == Fulfil(Obj([content |-> Str("File content")]))

deleteFileHandler(params) == Fulfil(Obj([success |-> Bool(TRUE)]))

listDirectoryHandler(params) ==
    Fulfil(Obj([files |-> Arr(<<Str("file1.ts"), Str("file2.ts")>>)]))

browserNavigateHandler(params) ==
    IF IsNullish(params) THEN Reject(Err(TypeErrorRead(params, "url")))
    ELSE Fulfil(Obj([success |-> Bool(TRUE), url |-> GetProp(params, "url")]))

browserClickHandler(params) == Fulfil(Obj([success |-> Bool(TRUE)]))

browserScrapeHandler(params) == Fulfil(Obj([content |-> Str("Scraped content")]))

webSearchHandler(params) == Fulfil(Obj([results |-> Arr(<<>>)]))

editCodeHandler(params) == Fulfil(Obj([success |-> Bool(TRUE)]))

gitCloneHandler(params) ==
    IF IsNullish(params) THEN Reject(Err(TypeErrorRead(params, "path")))
    ELSE Fulfil(Obj([success |-> Bool(TRUE), path |-> GetProp(params, "path")]))

gitCommitHandler(params) ==
    Fulfil(Obj([success |-> Bool(TRUE), hash |-> Str("abc123")]))

expoBuildHandler(params) ==
    Fulfil(Obj([success |-> Bool(TRUE),
                buildUrl |-> Str("https://expo.dev/builds/123")]))

(***************************************************************************)
(* Handlers and schemas a caller registers.  registerTool takes any        *)
(* closure of type (params: any) => Promise<any>; these four cover the     *)
(* ways such a closure can end.                                            *)
(***************************************************************************)
\* async (params) => params.text
echoHandler(params) ==
    IF IsNullish(params) THEN Reject(Err(TypeErrorRead(params, "text")))
    ELSE Fulfil(GetProp(params, "text"))

\* async () => ({ success: false, error: 'disk full' })
softFailHandler(params) ==
    Fulfil(Obj([success |-> Bool(FALSE), error |-> Str("disk full")]))

\* () => { throw new Error('boom') }
throwingHandler(params) == Throw(Err("boom"))

\* () => Promise.reject(404)
rejectingHandler(params) == Reject(Num(404))

\* handler(params) for a registered closure
ApplyHandler(handler, params) ==
    CASE handler = Fn("executeCommandHandler") -> executeCommandHandler(params)
      [] handler = Fn("writeFileHandler")       -> writeFileHandler(params)
      [] handler = Fn("readFileHandler")        -> readFileHandler(params)
      [] handler = Fn("deleteFileHandler")      -> deleteFileHandler(params)
      [] handler = Fn("listDirectoryHandler")   -> listDirectoryHandler(params)
      [] handler = Fn("browserNavigateHandler") -> browserNavigateHandler(params)
      [] handler = Fn("browserClickHandler")    -> browserClickHandler(params)
      [] handler = Fn("browserScrapeHandler")   -> browserScrapeHandler(params)
      [] handler = Fn("webSearchHandler")       -> webSearchHandler(params)
      [] handler = Fn("editCodeHandler")        -> editCodeHandler(params)
      [] handler = Fn("gitCloneHandler")        -> gitCloneHandler(params)
      [] handler = Fn("gitCommitHandler")       -> gitCommitHandler(params)
      [] handler = Fn("expoBuildHandler")       -> expoBuildHandler(params)
      [] handler = Fn("echoHandler")            -> echoHandler(params)
      [] handler = Fn("softFailHandler")        -> softFailHandler(params)
      [] handler = Fn("throwingHandler")        -> throwingHandler(params)
      [] handler = Fn("rejectingHandler")       -> rejectingHandler(params)

\* the tool of the specification's scenario: "echo" requiring "text"
EchoSchema ==
    [name |-> "echo",
     description |-> "Echo the text",
     parameters |->
        [type |-> "object",
         properties |-> [text |-> Prop("string", "Text to echo")],
         required |-> <<"text">>]]

\* a tool whose required parameter carries a name that every object inherits
CreateClassSchema ==
    [name |-> "create_class",
     description |-> "Generate a class",
     parameters |->
        [type |-> "object",
         properties |->
            [name |-> Prop("string", "Class name"),
             constructor |-> Prop("string", "Constructor body")],
         required |-> <<"name", "constructor">>]]

\* a replacement for the first default tool
ExecuteCommandSchemaV2 ==
    [name |-> "execute_command",
     description |-> "Execute a shell command in a directory",
     parameters |->
        [type |-> "object",
         properties |->
            [command |-> Prop("string", "The command to execute"),
             workingDir |-> Prop("string", "Working directory for the command")],
         required |-> <<"command", "workingDir">>]]

\* the registerTool calls a caller makes: a new tool, the same tool again with
\* a handler that throws, a replacement of the first default tool, a second
\* new tool
UserTools ==
    { [schema |-> EchoSchema,             handler |-> Fn("echoHandler")],
      [schema |-> EchoSchema,             handler |-> Fn("throwingHandler")],
      [schema |-> ExecuteCommandSchemaV2, handler |-> Fn("rejectingHandler")],
      [schema |-> CreateClassSchema,      handler |-> Fn("softFailHandler")] }

(***************************************************************************)
(* Bounds and inputs.                                                      *)
(***************************************************************************)
\* registerTool calls made after construction
MaxRegs == 2
\* executeTool calls that may be awaiting their handler at the same time
MaxInFlight == 1

ToolCalls ==
    { [id |-> "1", name |-> "echo", parameters |-> Obj([text |-> Str("hi")])],
      [id |-> "2", name |-> "echo", parameters |-> Obj(<<>>)],
      [id |-> "3", name |-> "missing", parameters |-> Obj(<<>>)],
      [id |-> "4", name |-> "write_file", parameters |-> Undefined],
      [id |-> "5", name |-> "write_file",
       parameters |-> Obj([path |-> Str("a.txt"), content |-> Num(7),
                           mode |-> Str("x")])],
      [id |-> "6", name |-> "execute_command", parameters |-> Null],
      [id |-> "7", name |-> "create_class",
       parameters |-> Obj([name |-> Str("Foo")])] }

\* the (toolName, parameters) pairs validateParameters is called with: all
\* required parameters present, one missing, none given, parameters of the
\* wrong type and undeclared ones, an absent mapping, a schema without a
\* required list
ValidateCalls ==
    { [toolName |-> "echo", parameters |-> Obj([text |-> Str("hi")])],
      [toolName |-> "echo", parameters |-> Obj(<<>>)],
      [toolName |-> "missing", parameters |-> Obj(<<>>)],
      [toolName |-> "write_file",
       parameters |-> Obj([path |-> Str("a.txt"), content |-> Num(7),
                           mode |-> Str("x")])],
      [toolName |-> "write_file", parameters |-> Obj([path |-> Str("a.txt")])],
      [toolName |-> "write_file", parameters |-> Undefined],
      [toolName |-> "execute_command", parameters |-> Null],
      [toolName |-> "execute_command",
       parameters |-> Obj([command |-> Str("ls")])],
      [toolName |-> "create_class", parameters |-> Obj([name |-> Str("Foo")])],
      [toolName |-> "create_class", parameters |-> Obj(<<>>)],
      [toolName |-> "expo_build", parameters |-> Undefined],
      [toolName |-> "expo_build", parameters |-> Obj([text |-> Str("hi")])] }

\* the names getTool is called with
ToolNames == {"echo", "missing", "write_file", "execute_command"}

(***************************************************************************)
(* The state.                                                              *)
(***************************************************************************)
VARIABLES
    tools,          \* ToolSchemaSystem.tools: Map<string, ToolSchema>
    handlers,       \* ToolSchemaSystem.handlers: Map<string, closure>
    pending,        \* the bag of executeTool calls suspended at
                    \* `await handler(...)`
    registrations,  \* history: the registerTool calls made since construction
    lastReturn,     \* history: the operation that completed last and what
                    \* its caller got
    outcomes,       \* history: the outcomes executeTool has returned
    agent,          \* the SuperAgent: its PromptCompiler, its provider
                    \* router and the executeTask calls under way
    patch,          \* the PatchDiffEngine call made last and its result
    fs,             \* the WorkspaceEngine call made last and the paths it
                    \* handed to the filesystem
    bridge,         \* the AutonomousBridge: the retry call under way
    watch,          \* the watchFile call of the WorkspaceEngine and its polls
    disk            \* the files of the device: the content at each full path

vars == <<tools, handlers, pending, registrations, lastReturn,
          outcomes, agent, patch, fs, bridge, watch, disk>>

\* the state of the registry
registryVars == <<tools, handlers, pending, registrations, lastReturn>>

\* how an operation ends for its caller
Returned(v) == [return |-> v]
Thrown(e)   == [throw |-> e]

(***************************************************************************)
(* registerTool                                                            *)
(***************************************************************************)
\* registerTool with the bug "only the schema is stored"
registerTool_schemaOnly(reg, schema, handler) ==
    [tools    |-> MapSet(reg.tools, schema.name, schema),
     handlers |-> reg.handlers]

registerTool(reg, schema, handler) ==
    [tools    |-> MapSet(reg.tools, schema.name, schema),
     handlers |-> MapSet(reg.handlers, schema.name, handler)]

RECURSIVE registerAll(_, _)
registerAll(reg, entries) ==
    IF entries = <<>> THEN reg
    ELSE registerAll(registerTool(reg, Head(entries).schema,
                                  Head(entries).handler),
                     Tail(entries))

\* the constructor: both maps empty, then registerDefaultTools
registerDefaultTools ==
    registerAll([tools |-> EmptyMap, handlers |-> EmptyMap], DefaultTools)

\* every registerTool call so far, the constructor's first
AllRegistrations == DefaultTools \o registrations

\* whether registerTool has been called for this name, and the arguments of
\* the most recent such call
EverRegistered(name) ==
    \E i \in 1..Len(AllRegistrations) : AllRegistrations[i].schema.name = name

LatestRegistration(name) ==
    LET last == CHOOSE i \in 1..Len(AllRegistrations) :
                    /\ AllRegistrations[i].schema.name = name
                    /\ \A j \in (i+1)..Len(AllRegistrations) :
                           AllRegistrations[j].schema.name # name
    IN  AllRegistrations[last]

Init ==
    /\ tools = registerDefaultTools.tools
    /\ handlers = registerDefaultTools.handlers
    /\ pending = EmptyBag
    /\ registrations = <<>>
    /\ lastReturn = [op |-> "constructor"]

RegisterTool(schema, handler) ==
    /\ Len(registrations) < MaxRegs
    /\ LET reg == registerTool([tools |-> tools, handlers |-> handlers],
                               schema, handler)
       IN  /\ tools' = reg.tools
           /\ handlers' = reg.handlers
    /\ registrations' = Append(registrations,
                               [schema |-> schema, handler |-> handler])
    /\ lastReturn' = [op |-> "registerTool", schema |-> schema,
                      handler |-> handler, ret |-> Returned(Undefined)]
    /\ UNCHANGED pending

(***************************************************************************)
(* getTools, getTool                                                       *)
(***************************************************************************)
getTools(t) == MapValues(t)

getTool(t, name) == MapGet(t, name)

GetTools ==
    /\ lastReturn' = [op |-> "getTools", ret |-> Returned(getTools(tools))]
    /\ UNCHANGED <<tools, handlers, pending, registrations>>

GetTool(name) ==
    /\ lastReturn' = [op |-> "getTool", name |-> name,
                      ret |-> Returned(getTool(tools, name))]
    /\ UNCHANGED <<tools, handlers, pending, registrations>>

(***************************************************************************)
(* validateParameters                                                      *)
(***************************************************************************)
\* const { required = [] } = schema.parameters
requiredOf(schema) ==
    IF "required" \in DOMAIN schema.parameters
    THEN schema.parameters.required
    ELSE <<>>

\* the for loop, from its i-th iteration on
RECURSIVE validateLoop(_, _, _)
validateLoop(required, i, parameters) ==
    IF i > Len(required) THEN Returned(TRUE)
    ELSE IF ~IsObject(parameters)
         THEN Thrown(Err(TypeErrorIn(parameters, required[i])))
    ELSE IF ~HasProperty(parameters, required[i]) THEN Returned(FALSE)
    ELSE validateLoop(required, i + 1, parameters)

validateParameters(t, toolName, parameters) ==
    LET schema == MapGet(t, toolName) IN
    IF schema = Undefined THEN Returned(FALSE)
    ELSE validateLoop(requiredOf(schema), 1, parameters)

(***************************************************************************)
(* executeTool                                                             *)
(***************************************************************************)
\* executeToolNotFound with the bug "the message does not name the tool"
executeToolNotFound_noName(call) ==
    [id |-> call.id, success |-> FALSE, error |-> "Tool not found"]

\* the return of the `if (!handler)` branch
executeToolNotFound(call) ==
    [id |-> call.id, success |-> FALSE,
     error |-> "Tool not found: " \o call.name]

\* executeToolSuccess with the bug "success is read off the handler's value"
executeToolSuccess_fromResult(call, result) ==
    [id |-> call.id,
     success |-> IF IsObject(result) /\ "success" \in DOMAIN result.object
                 THEN result.object.success = Bool(TRUE)
                 ELSE TRUE,
     result |-> result]

\* executeToolSuccess with the bug "the call id leaks into the result"
executeToolSuccess_idInResult(call, result) ==
    [id |-> call.id, success |-> TRUE,
     result |-> Obj([id |-> Str(call.id), value |-> result])]

\* executeToolSuccess with the bug "the outcome is labelled with the tool name"
executeToolSuccess_nameAsId(call, result) ==
    [id |-> call.name, success |-> TRUE, result |-> result]

\* the return of the try block
executeToolSuccess(call, result) ==
    [id |-> call.id, success |-> TRUE, result |-> result]

\* executeToolFailure with the bug "a failure also carries a result"
executeToolFailure_withResult(call, error) ==
    [id |-> call.id, success |-> FALSE,
     error |-> IF IsError(error) THEN error.error ELSE String(error),
     result |-> error]

\* executeToolFailure with the bug "a caught error is reported as a result"
executeToolFailure_asSuccess(call, error) ==
    [id |-> call.id, success |-> TRUE, result |-> error]

\* the return of the catch block
executeToolFailure(call, error) ==
    [id |-> call.id, success |-> FALSE,
     error |-> IF IsError(error) THEN error.error ELSE String(error)]

\* executeToolLookup with the bug "a call that does not pass
\* validateParameters finds no handler"
executeToolLookup_gated(reg, call) ==
    IF validateParameters(reg.tools, call.name, call.parameters)
           = Returned(TRUE)
    THEN MapGet(reg.handlers, call.name)
    ELSE Undefined

\* this.handlers.get(call.name), reg being `this`
executeToolLookup(reg, call) == MapGet(reg.handlers, call.name)

\* executeToolTry with the bug "a handler that fails is tried once more"
executeToolTry_retry(handler, call) ==
    LET one == [handler |-> handler, params |-> call.parameters] IN
    [invoked    |-> IF ApplyHandler(handler, call.parameters).kind = "fulfilled"
                    THEN <<one>> ELSE <<one, one>>,
     completion |-> ApplyHandler(handler, call.parameters)]

\* `await handler(call.parameters)` in the try block: the invocations it
\* makes and how the handler ends
executeToolTry(handler, call) ==
    [invoked    |-> <<[handler |-> handler, params |-> call.parameters]>>,
     completion |-> ApplyHandler(handler, call.parameters)]

\* executeToolRegistry with the bug "a tool is unregistered by its execution"
executeToolRegistry_unregister(reg, call) ==
    [tools    |-> SelectSeq(reg.tools, LAMBDA e : e.key # call.name),
     handlers |-> SelectSeq(reg.handlers, LAMBDA e : e.key # call.name)]

\* the two maps after executeTool: it assigns neither and calls nothing
\* that does
executeToolRegistry(reg, call) == reg

\* what the history keeps of an executeTool call: the call, what the
\* registerTool history said about its name when it was made, what
\* validateParameters said of it then, the handler invocations it made and
\* how the handler ended
CallRecord(call, invoked, completion) ==
    [call       |-> call,
     registered |-> EverRegistered(call.name),
     latest     |-> IF EverRegistered(call.name)
                    THEN LatestRegistration(call.name).handler
                    ELSE Undefined,
     valid      |-> validateParameters(tools, call.name, call.parameters),
     invoked    |-> invoked,
     completion |-> completion]

\* executeTool up to its return or to its suspension at the await
ExecuteTool(call) ==
    LET reg     == [tools |-> tools, handlers |-> handlers]
        handler == executeToolLookup(reg, call)
        after   == executeToolRegistry(reg, call)
    IN
    /\ IF handler = Undefined
       THEN /\ lastReturn' =
                  [op |-> "executeTool",
                   rec |-> CallRecord(call, <<>>, [kind |-> "none"]),
                   ret |-> Returned(executeToolNotFound(call))]
            /\ UNCHANGED pending
       ELSE LET try == executeToolTry(handler, call)
                rec == CallRecord(call, try.invoked, try.completion)
            IN  IF try.completion.kind = "throw"
                THEN /\ lastReturn' =
                           [op |-> "executeTool", rec |-> rec,
                            ret |-> Returned(executeToolFailure(
                                                call, try.completion.value))]
                     /\ UNCHANGED pending
                ELSE /\ BagCardinality(pending) < MaxInFlight
                     /\ pending' = pending (+) SetToBag({rec})
                     /\ UNCHANGED lastReturn
    /\ tools' = after.tools
    /\ handlers' = after.handlers
    /\ UNCHANGED registrations

\* the awaited promise settles and executeTool returns
HandlerSettles(rec) ==
    /\ BagIn(rec, pending)
    /\ lastReturn' =
          [op |-> "executeTool", rec |-> rec,
           ret |-> Returned(
                     IF rec.completion.kind = "fulfilled"
                     THEN executeToolSuccess(rec.call, rec.completion.value)
                     ELSE executeToolFailure(rec.call, rec.completion.value))]
    /\ pending' = pending (-) SetToBag({rec})
    /\ UNCHANGED <<tools, handlers, registrations>>

(***************************************************************************)
(* validateParameters, the operation                                       *)
(***************************************************************************)
ValidateParameters(toolName, parameters) ==
    /\ lastReturn' = [op |-> "validateParameters", toolName |-> toolName,
                      parameters |-> parameters,
                      ret |-> validateParameters(tools, toolName, parameters)]
    /\ UNCHANGED <<tools, handlers, pending, registrations>>

(***************************************************************************)
(* executeTool against pure handlers: the registry as constructed (its     *)
(* default handlers compute their value from the parameters alone), calls  *)
(* that repeat a tool name and parameters under different ids, and the     *)
(* history of every outcome returned.                                      *)
(***************************************************************************)
PureCalls ==
    { [id |-> i, name |-> c.name, parameters |-> c.parameters] :
        i \in {"a", "b"},
        c \in { [name |-> "write_file", parameters |-> Undefined],
                [name |-> "write_file",
                 parameters |-> Obj([path |-> Str("a.txt")])],
                [name |-> "execute_command", parameters |-> Null],
                [name |-> "missing", parameters |-> Obj(<<>>)] } }

\* an outcome as the history keeps it: with the call that produced it
Observation(ret) == [call |-> ret.rec.call, outcome |-> ret.ret.return]

InitOutcomes == outcomes = {}

ExecuteToolObserved(call) ==
    /\ ExecuteTool(call)
    /\ outcomes' = IF pending' = pending
                   THEN outcomes \cup {Observation(lastReturn')}
                   ELSE outcomes
    /\ UNCHANGED <<agent, patch, fs, bridge, watch, disk>>

HandlerSettlesObserved(rec) ==
    /\ HandlerSettles(rec)
    /\ outcomes' = outcomes \cup {Observation(lastReturn')}
    /\ UNCHANGED <<agent, patch, fs, bridge, watch, disk>>

NextPure ==
    \/ \E call \in PureCalls : ExecuteToolObserved(call)
    \/ \E rec \in BagToSet(pending) : HandlerSettlesObserved(rec)

(***************************************************************************)
(* LLMProviderRouter, PromptCompiler and SuperAgent                        *)
(***************************************************************************)
\* no value: a history field that nothing has set
None == [none |-> TRUE]

\* the ids initializeProviders registers
RegisteredProviders ==
    {"openai", "anthropic", "google", "deepseek", "openrouter", "groq",
     "ollama", "xai", "together", "cohere", "mistral", "perplexity",
     "huggingface", "bedrock", "moonshot", "hyperbolic", "github",
     "openai-compatible"}

\* this.providers after initializeProviders: every provider is registered
\* with isConfigured false
initializeProviders == [id \in RegisteredProviders |-> FALSE]

\* configureProvider: isConfigured = !!config.apiKey, when the id is
\* registered
configureProvider(providers, providerId, config) ==
    IF providerId \in DOMAIN providers
    THEN [providers EXCEPT ![providerId] = config.apiKey # ""]
    ELSE providers

\* SuperAgent.configureProviders: configureProvider for each, in order
RECURSIVE configureProviders(_, _)
configureProviders(providers, configs) ==
    IF configs = <<>> THEN providers
    ELSE configureProviders(
             configureProvider(providers, Head(configs).name, Head(configs)),
             Tail(configs))

\* LLMProviderRouter.getProvider
getProvider(providers, providerId) ==
    IF providerId \in DOMAIN providers
    THEN [id |-> providerId, isConfigured |-> providers[providerId]]
    ELSE Undefined

\* PromptCompiler.getProvider: the SDK provider the switch selects
promptCompilerGetProvider(config) ==
    IF config.provider \in {"openai", "anthropic", "google", "deepseek"}
    THEN config.provider
    ELSE "openai"

\* PromptCompiler.execute up to its await: the request generateText is
\* given, provider(this.config.model) with the prompt
promptCompilerExecute(config, compiled) ==
    [provider |-> promptCompilerGetProvider(config),
     model    |-> config.model,
     prompt   |-> compiled.userPrompt]

\* PromptCompiler.compileAgentPrompt
compileAgentPrompt(agents, description) ==
    [agents |-> agents, userPrompt |-> description]

\* how many tool calls one answer of the LLM holds at most
MaxCalls == 2

\* the largest value Date.now() returns
MaxClock == 1

\* the configuration the SuperAgent is constructed with: two configured
\* providers, one with an empty key and one the router does not know
Config ==
    [providers       |-> << [name |-> "openai",    apiKey |-> "sk"],
                            [name |-> "groq",      apiKey |-> "gk"],
                            [name |-> "anthropic", apiKey |-> ""],
                            [name |-> "nope",      apiKey |-> "nk"] >>,
     defaultProvider |-> "openai",
     defaultModel    |-> "gpt-4o",
     agents          |-> <<"coder">>]

\* the tasks executeTask is called with
Tasks ==
    { [id |-> "t1", description |-> "build"],
      [id |-> "t2", description |-> "test"] }

TaskIds == { task.id : task \in Tasks }

\* the tool calls an answer of the LLM may hold: one that succeeds, one whose
\* handler fails and one that names no tool
EmittedCalls ==
    { [toolName |-> "write_file",
       args     |-> Obj([path |-> Str("a.txt")])],
      [toolName |-> "write_file", args |-> Undefined],
      [toolName |-> "missing",    args |-> Obj(<<>>)] }

\* the sequences over S of length at most n
SeqsUpTo(S, n) == UNION { [1..k -> S] : k \in 0..n }

\* how promptCompiler.execute may end: with an answer that holds tool calls
\* (or none, or no toolCalls field), or with an error
LlmAnswers ==
    { Fulfil([toolCalls |-> Arr(s)]) : s \in SeqsUpTo(EmittedCalls, MaxCalls) }
        \cup { Fulfil([toolCalls |-> Undefined]),
               Reject(Err("rate limit exceeded")) }

\* the arguments of switchProvider
SwitchCalls ==
    { [providerId |-> p, model |-> m] :
        p \in {"openai", "groq", "anthropic", "nope"},
        m \in {"gpt-4o-mini", "llama-3.1-70b"} }

\* executeTool from its call to its return: the outcome the caller awaits
executeTool(reg, call) ==
    LET handler == executeToolLookup(reg, call) IN
    IF handler = Undefined THEN executeToolNotFound(call)
    ELSE LET try == executeToolTry(handler, call) IN
         IF try.completion.kind = "fulfilled"
         THEN executeToolSuccess(call, try.completion.value)
         ELSE executeToolFailure(call, try.completion.value)

\* o.k of a ToolResult
ToolResultProp(o, k) ==
    IF k \in DOMAIN o
    THEN (IF k = "error" THEN Str(o[k]) ELSE o[k])
    ELSE Undefined

\* an executeTask call that has not started
IdleTask ==
    [pc         |-> "idle",
     steps      |-> <<>>,
     toolCalls  |-> <<>>,
     result     |-> Undefined,
     inflight   |-> {},
     dispatched |-> <<>>,
     ids        |-> <<>>,
     sent       |-> None,
     switched   |-> None,
     ret        |-> None]

\* llmResult.toolCalls of a running call, empty when the answer has none
Emitted(t) ==
    IF t.result # Undefined /\ "array" \in DOMAIN t.result.toolCalls
    THEN t.result.toolCalls.array
    ELSE <<>>

\* the agent as constructed
InitAgent ==
    agent = [providers      |-> configureProviders(initializeProviders,
                                                    Config.providers),
             promptCompiler |-> [provider |-> Config.defaultProvider,
                                 model    |-> Config.defaultModel],
             tasks          |-> [id \in TaskIds |-> IdleTask],
             now            |-> 0,
             switched       |-> None,
             lastSwitch     |-> None]

\* the values Date.now() may return next
DateNow == { n \in agent.now .. agent.now + 1 : n <= MaxClock }

\* executeTaskReturn with the bug "success is set whatever happened"
executeTaskReturn_successAlways(taskId, t, success, error) ==
    [t EXCEPT !.pc = "returned",
              !.inflight = {},
              !.sent = None,
              !.ret = [taskId    |-> taskId,
                       success   |-> TRUE,
                       result    |-> t.result,
                       error     |-> error,
                       steps     |-> t.steps,
                       toolCalls |-> t.toolCalls]]

\* the `return` of executeTask
executeTaskReturn(taskId, t, success, error) ==
    [t EXCEPT !.pc = "returned",
              !.inflight = {},
              !.sent = None,
              !.ret = [taskId    |-> taskId,
                       success   |-> success,
                       result    |-> t.result,
                       error     |-> error,
                       steps     |-> t.steps,
                       toolCalls |-> t.toolCalls]]

\* executeTaskDispatch with the bug "the tool calls are started together"
executeTaskDispatch_parallel(emitted, dispatched, inflight) ==
    IF dispatched = <<>> THEN [i \in 1..Len(emitted) |-> i] ELSE <<>>

\* the indexes of the emitted calls the loop hands to executeTool when it
\* runs on: the next one, once the one before it has been awaited
executeTaskDispatch(emitted, dispatched, inflight) ==
    IF inflight = {} /\ Len(dispatched) < Len(emitted)
    THEN << Len(dispatched) + 1 >>
    ELSE <<>>

\* executeTaskContinue with the bug "a failed tool call does not end the task"
executeTaskContinue_ignoreFailure(toolResult) == TRUE

\* whether the loop goes on after a tool call: `if (!toolResult.success)
\* throw`
executeTaskContinue(toolResult) == toolResult.success

\* executeTaskError with the bug "the tool's error is the task's error"
executeTaskError_bare(toolName, error) == String(error)

\* the message of the error thrown for a failed tool call
executeTaskError(toolName, error) ==
    "Tool " \o toolName \o " failed: " \o String(error)

\* the id of a tool call: `${task.id}-${Date.now()}`
executeTaskCallId(taskId, now) == taskId \o "-" \o ToString(now)

\* the loop from where it runs on to its next await or to the return
executeTaskLoop(taskId, t, now) ==
    LET emitted == Emitted(t)
        next    == executeTaskDispatch(emitted, t.dispatched, t.inflight)
        started == { [index   |-> next[k],
                      outcome |-> executeTool(
                          [tools |-> tools, handlers |-> handlers],
                          [id         |-> executeTaskCallId(taskId, now),
                           name       |-> emitted[next[k]].toolName,
                           parameters |-> emitted[next[k]].args])] :
                     k \in 1..Len(next) }
    IN  IF next = <<>> /\ t.inflight = {}
        THEN executeTaskReturn(taskId, t, TRUE, Undefined)
        ELSE [t EXCEPT !.pc = "tools",
                       !.inflight = @ \cup started,
                       !.dispatched = @ \o next,
                       !.ids = @ \o [k \in 1..Len(next) |->
                                        executeTaskCallId(taskId, now)]]

\* whether executeTaskLoop calls Date.now()
ReadsClock(t) ==
    executeTaskDispatch(Emitted(t), t.dispatched, t.inflight) # <<>>

\* executeTask up to the await of promptCompiler.execute
ExecuteTask(task) ==
    /\ agent.tasks[task.id].pc \in {"idle", "returned"}
    /\ agent' =
         [agent EXCEPT !.tasks[task.id] =
            [IdleTask EXCEPT
               !.pc = "llm",
               !.steps = << [step |-> 1,
                             description |-> "Compiling prompt for task",
                             action |-> "prompt_compilation"],
                            [step |-> 2,
                             description |-> "Executing prompt with LLM",
                             action |-> "llm_execution"] >>,
               !.sent = promptCompilerExecute(
                            agent.promptCompiler,
                            compileAgentPrompt(Config.agents,
                                               task.description)),
               !.switched = agent.switched]]
    /\ UNCHANGED <<registryVars, outcomes, patch, fs, bridge, watch, disk>>

\* promptCompiler.execute settles and executeTask runs on to the await of
\* the first tool call or to its return
LlmSettles(taskId, answer) ==
    LET t == agent.tasks[taskId] IN
    /\ t.pc = "llm"
    /\ IF answer.kind = "rejected"
       THEN agent' = [agent EXCEPT !.tasks[taskId] =
                        executeTaskReturn(
                            taskId, t, FALSE,
                            Str(IF IsError(answer.value)
                                THEN answer.value.error
                                ELSE String(answer.value)))]
       ELSE LET got  == [t EXCEPT !.result = answer.value, !.sent = None]
                n    == Len(Emitted(got))
                loop == [got EXCEPT !.steps = Append(@,
                           [step |-> 3,
                            description |-> "Executing " \o ToString(n)
                                               \o " tool calls",
                            action |-> "tool_execution"])]
            IN  IF n > 0
                THEN \E now \in DateNow :
                        agent' = [agent EXCEPT
                                    !.tasks[taskId] =
                                        executeTaskLoop(taskId, loop, now),
                                    !.now = now]
                ELSE agent' = [agent EXCEPT !.tasks[taskId] =
                                 executeTaskReturn(taskId, got, TRUE,
                                                   Undefined)]
    /\ UNCHANGED <<registryVars, outcomes, patch, fs, bridge, watch, disk>>

\* an awaited executeTool settles and executeTask runs on to the await of
\* the next tool call or to its return
ToolSettles(taskId, call) ==
    LET t       == agent.tasks[taskId]
        emitted == Emitted(t)
        toolCall == emitted[call.index]
        pushed  == [t EXCEPT
                      !.inflight = @ \ {call},
                      !.toolCalls = Append(@,
                         [toolName   |-> toolCall.toolName,
                          parameters |-> toolCall.args,
                          success    |-> call.outcome.success,
                          result     |-> ToolResultProp(call.outcome,
                                                        "result"),
                          error      |-> ToolResultProp(call.outcome,
                                                        "error")])]
    IN
    /\ t.pc = "tools"
    /\ call \in t.inflight
    /\ IF ~executeTaskContinue(call.outcome)
       THEN agent' = [agent EXCEPT !.tasks[taskId] =
                        executeTaskReturn(
                            taskId, pushed, FALSE,
                            Str(executeTaskError(
                                    toolCall.toolName,
                                    ToolResultProp(call.outcome, "error"))))]
       ELSE IF ReadsClock(pushed)
            THEN \E now \in DateNow :
                    agent' = [agent EXCEPT
                                !.tasks[taskId] =
                                    executeTaskLoop(taskId, pushed, now),
                                !.now = now]
            ELSE agent' = [agent EXCEPT !.tasks[taskId] =
                             executeTaskLoop(taskId, pushed, agent.now)]
    /\ UNCHANGED <<registryVars, outcomes, patch, fs, bridge, watch, disk>>

\* switchProvider
SwitchProvider(providerId, model) ==
    LET provider == getProvider(agent.providers, providerId)
        accepted == provider # Undefined /\ provider.isConfigured
        eligible == /\ providerId \in RegisteredProviders
                    /\ \E i \in 1..Len(Config.providers) :
                          /\ Config.providers[i].name = providerId
                          /\ Config.providers[i].apiKey # ""
    IN
    /\ agent' = [agent EXCEPT
                   !.promptCompiler =
                       IF accepted
                       THEN [provider |-> providerId, model |-> model]
                       ELSE @,
                   !.switched =
                       IF eligible
                       THEN [providerId |-> providerId, model |-> model]
                       ELSE @,
                   !.lastSwitch =
                       [providerId |-> providerId,
                        model      |-> model,
                        eligible   |-> eligible,
                        before     |-> agent.promptCompiler]]
    /\ UNCHANGED <<registryVars, outcomes, patch, fs, bridge, watch, disk>>

\* executeTask calls, the LLM's answers and the tool calls they start
NextAgent ==
    \/ \E task \in Tasks : ExecuteTask(task)
    \/ \E id \in TaskIds, answer \in LlmAnswers : LlmSettles(id, answer)
    \/ \E id \in TaskIds :
          \E call \in agent.tasks[id].inflight : ToolSettles(id, call)

\* one task, answers with at most one tool call, and switchProvider
NextProvider ==
    \/ \E task \in { x \in Tasks : x.id = "t1" } : ExecuteTask(task)
    \/ \E answer \in { a \in LlmAnswers :
                         a.kind = "fulfilled" =>
                             Len(Emitted([result |-> a.value])) <= 1 } :
          LlmSettles("t1", answer)
    \/ \E call \in agent.tasks["t1"].inflight : ToolSettles("t1", call)
    \/ \E s \in SwitchCalls : SwitchProvider(s.providerId, s.model)

(***************************************************************************)
(* PatchDiffEngine.  A string is the sequence of its characters; an        *)
(* optional string is Undefined or Str of that sequence.                   *)
(***************************************************************************)
\* the characters of the strings
Chars == {"a", "b", "\n"}

\* the longest content
MaxLen == 2

\* whether an optional string is truthy: neither undefined nor empty
Truthy(v) == IF v = Undefined THEN FALSE ELSE v.string # <<>>

\* s.includes(sub)
includes(s, sub) ==
    \E i \in 0..(Len(s) - Len(sub)) : SubSeq(s, i + 1, i + Len(sub)) = sub

\* s.split('\n')
RECURSIVE split(_)
split(s) ==
    IF \E i \in 1..Len(s) : s[i] = "\n"
    THEN LET i == CHOOSE k \in 1..Len(s) :
                      /\ s[k] = "\n"
                      /\ \A j \in 1..(k - 1) : s[j] # "\n"
         IN  <<SubSeq(s, 1, i - 1)>> \o split(SubSeq(s, i + 1, Len(s)))
    ELSE <<s>>

\* lines.join('\n')
RECURSIVE join(_)
join(lines) ==
    IF lines = <<>> THEN <<>>
    ELSE IF Len(lines) = 1 THEN lines[1]
    ELSE lines[1] \o <<"\n">> \o join(Tail(lines))

\* lines.indexOf(v): the index, from 0, of the first line equal to v, or -1
indexOf(lines, v) ==
    IF \E i \in 1..Len(lines) : lines[i] = v
    THEN (CHOOSE i \in 1..Len(lines) :
              /\ lines[i] = v
              /\ \A j \in 1..(i - 1) : lines[j] # v) - 1
    ELSE -1

\* findInsertLine: after the first line that contains the path, or at the end
findInsertLine(content, path) ==
    LET lines == split(content) IN
    IF \E i \in 1..Len(lines) : includes(lines[i], path)
    THEN CHOOSE i \in 1..Len(lines) :
             /\ includes(lines[i], path)
             /\ \A j \in 1..(i - 1) : ~includes(lines[j], path)
    ELSE Len(lines)

\* applyPatch
applyPatch(content, operation) ==
    LET lines == split(content) IN
    join(
      CASE operation.op = "replace" ->
             IF Truthy(operation.oldValue) /\ Truthy(operation.value)
             THEN LET index == indexOf(lines, operation.oldValue.string) IN
                  IF index # -1
                  THEN [lines EXCEPT ![index + 1] = operation.value.string]
                  ELSE lines
             ELSE lines
        [] operation.op = "insert" ->
             IF Truthy(operation.value)
             THEN LET insertIndex ==
                          findInsertLine(content, operation.path.string)
                  IN  SubSeq(lines, 1, insertIndex)
                          \o <<operation.value.string>>
                          \o SubSeq(lines, insertIndex + 1, Len(lines))
             ELSE lines
        [] operation.op = "delete" ->
             IF Truthy(operation.oldValue)
             THEN LET index == indexOf(lines, operation.oldValue.string) IN
                  IF index # -1
                  THEN SubSeq(lines, 1, index)
                           \o SubSeq(lines, index + 2, Len(lines))
                  ELSE lines
             ELSE lines)

\* validatePatch
validatePatch(content, operation) ==
    IF operation.op = "delete" /\ Truthy(operation.oldValue)
    THEN includes(content, operation.oldValue.string)
    ELSE IF operation.op = "replace" /\ Truthy(operation.oldValue)
    THEN includes(content, operation.oldValue.string)
    ELSE TRUE

\* createSafePatch
createSafePatch(content, operation, fallback) ==
    IF validatePatch(content, operation)
    THEN applyPatch(content, operation)
    ELSE IF Truthy(fallback) THEN fallback.string ELSE content

\* the contents, the operations and the fallbacks the engine is called with
Contents == SeqsUpTo(Chars, MaxLen)

PatchOperations ==
    { [op |-> o, path |-> Str(p), value |-> v, oldValue |-> old] :
        o   \in {"replace", "insert", "delete"},
        p   \in {<<>>, <<"a">>},
        v   \in {Undefined, Str(<<>>), Str(<<"b">>)},
        old \in {Undefined, Str(<<>>), Str(<<"a">>), Str(<<"b">>)} }

Fallbacks == {Undefined, Str(<<>>), Str(<<"b">>)}

\* the engine as constructed: it has no fields
InitPatch == patch = [op |-> "constructor"]

\* the arguments of the calls to come
InitPatchCall ==
    patch \in { [op        |-> "constructor",
                 content   |-> c,
                 operation |-> o,
                 fallback  |-> f,
                 ret       |-> None] :
                c \in Contents, o \in PatchOperations, f \in Fallbacks }

ValidatePatch ==
    /\ patch' = [patch EXCEPT
                   !.op = "validatePatch",
                   !.ret = Returned(Bool(validatePatch(patch.content,
                                                       patch.operation)))]
    /\ UNCHANGED <<registryVars, outcomes, agent, fs, bridge, watch, disk>>

ApplyPatch ==
    /\ patch' = [patch EXCEPT
                   !.op = "applyPatch",
                   !.ret = Returned(Str(applyPatch(patch.content,
                                                   patch.operation)))]
    /\ UNCHANGED <<registryVars, outcomes, agent, fs, bridge, watch, disk>>

CreateSafePatch ==
    /\ patch' = [patch EXCEPT
                   !.op = "createSafePatch",
                   !.ret = Returned(Str(createSafePatch(patch.content,
                                                        patch.operation,
                                                        patch.fallback)))]
    /\ UNCHANGED <<registryVars, outcomes, agent, fs, bridge, watch, disk>>

NextPatch ==
    \/ ValidatePatch
    \/ ApplyPatch
    \/ CreateSafePatch

(***************************************************************************)
(* WorkspaceEngine.  A path is the sequence of its characters.  The        *)
(* expo-file-system module is the environment: the engine hands it paths   *)
(* and awaits what it answers.  Nothing iterates fileCache, so the Map is  *)
(* the function from its keys to its values; a FileNode is kept without    *)
(* its lastModified time.                                                  *)
(***************************************************************************)
\* s.startsWith(p)
startsWith(s, p) == Len(p) <= Len(s) /\ SubSeq(s, 1, Len(p)) = p

\* s.split('/')
RECURSIVE splitPath(_)
splitPath(s) ==
    IF \E i \in 1..Len(s) : s[i] = "/"
    THEN LET i == CHOOSE k \in 1..Len(s) :
                      /\ s[k] = "/"
                      /\ \A j \in 1..(k - 1) : s[j] # "/"
         IN  <<SubSeq(s, 1, i - 1)>> \o splitPath(SubSeq(s, i + 1, Len(s)))
    ELSE <<s>>

\* s.replace(/^\/+|\/+$/g, ''): s without its leading and trailing slashes
RECURSIVE stripSlashes(_)
stripSlashes(s) ==
    IF s = <<>> THEN s
    ELSE IF Head(s) = "/" THEN stripSlashes(Tail(s))
    ELSE IF s[Len(s)] = "/" THEN stripSlashes(SubSeq(s, 1, Len(s) - 1))
    ELSE s

\* segments.join('/')
RECURSIVE joinSlash(_)
joinSlash(segments) ==
    IF segments = <<>> THEN <<>>
    ELSE IF Len(segments) = 1 THEN segments[1]
    ELSE segments[1] \o <<"/">> \o joinSlash(Tail(segments))

\* joinPath
joinPath(segments) ==
    joinSlash(SelectSeq([i \in 1..Len(segments) |-> stripSlashes(segments[i])],
                        LAMBDA s : s # <<>>))

\* resolvePath, workspacePath being this.workspacePath
resolvePath(workspacePath, path) ==
    IF startsWith(path, workspacePath)
    THEN path
    ELSE joinPath(<<workspacePath, path>>)

\* getFileName
getFileName(path) ==
    LET parts == splitPath(path) IN
    IF parts[Len(parts)] # <<>> THEN parts[Len(parts)] ELSE path

\* the paths the operations are called with
FsPaths ==
    { <<"a">>,
      <<"/", "w", "/", "a">>,
      <<".", ".", "/", "x">>,
      <<"/", "w", "/", ".", ".", "/", "x">>,
      <<"/", "w", "x">> }

\* the source and destination paths move and copy are called with
FsPathPairs ==
    { [from |-> <<"a">>, to |-> <<"/", "w", "/", "a">>],
      [from |-> <<".", ".", "/", "x">>, to |-> <<"a">>] }

\* the contents files have
FileContents == {"c"}

\* the engine as constructed: the constructor starts initializeWorkspace,
\* which hands the workspace path to getInfoAsync
WorkspaceEngine(workspacePath) ==
    [workspacePath |-> workspacePath,
     fileCache     |-> <<>>,
     inflight      |-> {},
     passed        |-> {workspacePath},
     last          |-> [op |-> "constructor"],
     batch         |-> [pc |-> "idle"]]

\* the engine of the SuperAgent (App.tsx: workspacePath '/workspace')
InitFs == fs = WorkspaceEngine(<<"/", "w">>)

\* fileCache.set(path, node)
cacheSet(cache, path, node) ==
    [p \in DOMAIN cache \cup {path} |-> IF p = path THEN node ELSE cache[p]]

\* fileCache.delete(path)
cacheDelete(cache, path) == [p \in DOMAIN cache \ {path} |-> cache[p]]

\* the FileNode of a file and of a directory
FileNodeOf(path, content) ==
    [path |-> path, name |-> getFileName(path), type |-> "file",
     content |-> Str(content)]

DirectoryNodeOf(path) ==
    [path |-> path, name |-> getFileName(path), type |-> "directory",
     content |-> Undefined]

\* the call an operation awaits and the paths it hands to the file system
readFileCall(workspacePath, path) ==
    LET fullPath == resolvePath(workspacePath, path) IN
    [call  |-> [op |-> "readFile", path |-> path, fullPath |-> fullPath],
     paths |-> {fullPath}]

writeFileCall(workspacePath, path, content) ==
    LET fullPath == resolvePath(workspacePath, path) IN
    [call  |-> [op |-> "writeFile", path |-> path, fullPath |-> fullPath,
                content |-> content],
     paths |-> {fullPath}]

\* delete, up to the await of getInfoAsync
deleteCall(workspacePath, path) ==
    LET fullPath == resolvePath(workspacePath, path) IN
    [call  |-> [op |-> "delete", path |-> path, fullPath |-> fullPath,
                stage |-> "getInfoAsync"],
     paths |-> {fullPath}]

createDirectoryCall(workspacePath, path) ==
    LET fullPath == resolvePath(workspacePath, path) IN
    [call  |-> [op |-> "createDirectory", path |-> path,
                fullPath |-> fullPath],
     paths |-> {fullPath}]

moveCall(workspacePath, oldPath, newPath) ==
    LET fullOldPath == resolvePath(workspacePath, oldPath)
        fullNewPath == resolvePath(workspacePath, newPath)
    IN  [call  |-> [op |-> "move", path |-> oldPath, destination |-> newPath,
                    fullPath |-> fullOldPath, fullDestination |-> fullNewPath],
         paths |-> {fullOldPath, fullNewPath}]

copyCall(workspacePath, sourcePath, destPath) ==
    LET fullSourcePath == resolvePath(workspacePath, sourcePath)
        fullDestPath == resolvePath(workspacePath, destPath)
    IN  [call  |-> [op |-> "copy", path |-> sourcePath,
                    destination |-> destPath,
                    fullPath |-> fullSourcePath,
                    fullDestination |-> fullDestPath],
         paths |-> {fullSourcePath, fullDestPath}]

\* the engine once an operation has reached its await
awaiting(f, c) ==
    [f EXCEPT !.inflight = @ \cup {c.call}, !.passed = c.paths]

\* an operation up to its await
Await(c) ==
    /\ Cardinality(fs.inflight) < MaxInFlight
    /\ c.call \notin fs.inflight
    /\ fs' = awaiting(fs, c)
    /\ UNCHANGED <<registryVars, outcomes, agent, patch, bridge, watch, disk>>

ReadFile(path) == Await(readFileCall(fs.workspacePath, path))

WriteFile(path, content) ==
    Await(writeFileCall(fs.workspacePath, path, content))

Delete(path) == Await(deleteCall(fs.workspacePath, path))

CreateDirectory(path) == Await(createDirectoryCall(fs.workspacePath, path))

Move(oldPath, newPath) == Await(moveCall(fs.workspacePath, oldPath, newPath))

Copy(sourcePath, destPath) ==
    Await(copyCall(fs.workspacePath, sourcePath, destPath))

\* what the file system may answer to the awaited call
FileSystemAnswers(call) ==
    {Reject(Err("ENOENT"))} \cup
    ( IF call.op = "readFile"
      THEN { Fulfil(Str(c)) : c \in FileContents }
      ELSE IF call.op = "delete" /\ call.stage = "getInfoAsync"
      THEN { Fulfil([exists |-> b]) : b \in BOOLEAN }
      ELSE { Fulfil(Undefined) } )

\* the engine once the awaited call is answered and the operation has run on
\* to its return, or (delete) to the await of deleteAsync
settled(f, call, answer) ==
    LET cache == f.fileCache
        done(newCache, ret) ==
            [f EXCEPT !.inflight = @ \ {call},
                      !.fileCache = newCache,
                      !.passed = {},
                      !.last = [op |-> call.op, ret |-> ret]]
    IN
    IF answer.kind = "rejected"
    THEN done(cache, Thrown(answer.value))
    ELSE CASE call.op = "readFile" ->
                done(cacheSet(cache, call.path,
                              FileNodeOf(call.path, answer.value.string)),
                     Returned(answer.value))
           [] call.op = "writeFile" ->
                done(cacheSet(cache, call.path,
                              FileNodeOf(call.path, call.content)),
                     Returned(Undefined))
           [] call.op = "createDirectory" ->
                done(cacheSet(cache, call.path, DirectoryNodeOf(call.path)),
                     Returned(Undefined))
           [] call.op = "delete" /\ call.stage = "getInfoAsync" ->
                IF answer.value.exists
                THEN [f EXCEPT
                        !.inflight = (@ \ {call}) \cup
                            {[call EXCEPT !.stage = "deleteAsync"]},
                        !.passed = {call.fullPath}]
                ELSE done(cache, Returned(Undefined))
           [] call.op = "delete" /\ call.stage = "deleteAsync" ->
                done(cacheDelete(cache, call.path), Returned(Undefined))
           [] call.op = "move" ->
                done(IF call.path \in DOMAIN cache
                     THEN cacheSet(cacheDelete(cache, call.path),
                                   call.destination,
                                   [cache[call.path] EXCEPT
                                      !.path = call.destination])
                     ELSE cache,
                     Returned(Undefined))
           [] call.op = "copy" ->
                done(IF call.path \in DOMAIN cache
                     THEN cacheSet(cache, call.destination,
                                   [cache[call.path] EXCEPT
                                      !.path = call.destination])
                     ELSE cache,
                     Returned(Undefined))

\* the awaited call is answered
FileSystemSettles(call, answer) ==
    /\ call \in fs.inflight
    /\ fs.batch.pc = "running" => call # fs.batch.call
    /\ answer \in FileSystemAnswers(call)
    /\ fs' = settled(fs, call, answer)
    /\ UNCHANGED <<registryVars, outcomes, agent, patch, bridge, watch, disk>>

\* clearCache
ClearCache ==
    /\ fs' = [fs EXCEPT !.fileCache = <<>>, !.passed = {},
                        !.last = [op |-> "clearCache"]]
    /\ UNCHANGED <<registryVars, outcomes, agent, patch, bridge, watch, disk>>

(***************************************************************************)
(* WorkspaceEngine.batchOperations                                         *)
(***************************************************************************)
\* how many operations a batch holds at most
MaxOps == 2

\* the operations a batch may hold: of each type, and a write and a move
\* with and without their optional field
BatchOps ==
    { [type |-> "read",   path |-> <<"a">>],
      [type |-> "write",  path |-> <<"a">>, content |-> Str("c1")],
      [type |-> "write",  path |-> <<"a">>, content |-> Str("")],
      [type |-> "write",  path |-> <<"a">>, content |-> Undefined],
      [type |-> "delete", path |-> <<"a">>],
      [type |-> "create", path |-> <<"/", "w", "x">>],
      [type |-> "move",   path |-> <<"a">>,
       destination |-> Str(<<"/", "w", "/", "a">>)],
      [type |-> "move",   path |-> <<"a">>, destination |-> Undefined],
      [type |-> "copy",   path |-> <<"a">>,
       destination |-> Str(<<"/", "w", "/", "a">>)] }

\* whether the switch of batchOperations calls the operation: a write needs
\* a truthy content, a move or a copy a truthy destination
batchPerforms(op) ==
    CASE op.type = "write" -> op.content # Undefined /\ op.content # Str("")
      [] op.type \in {"move", "copy"} -> Truthy(op.destination)
      [] OTHER -> TRUE

\* the call of the engine the switch makes for an operation
batchCall(workspacePath, op) ==
    CASE op.type = "read"   -> readFileCall(workspacePath, op.path)
      [] op.type = "write"  -> writeFileCall(workspacePath, op.path,
                                             op.content.string)
      [] op.type = "delete" -> deleteCall(workspacePath, op.path)
      [] op.type = "create" -> createDirectoryCall(workspacePath, op.path)
      [] op.type = "move"   -> moveCall(workspacePath, op.path,
                                        op.destination.string)
      [] op.type = "copy"   -> copyCall(workspacePath, op.path,
                                        op.destination.string)

\* the loop of batchOperations from operation i on, to its next await or
\* to the return; performed lists the operations it has called
RECURSIVE batchLoop(_, _, _, _)
batchLoop(f, operations, i, performed) ==
    IF i > Len(operations)
    THEN [f EXCEPT !.batch = [pc |-> "returned", operations |-> operations,
                              performed |-> performed]]
    ELSE IF batchPerforms(operations[i])
    THEN LET c == batchCall(f.workspacePath, operations[i]) IN
         awaiting([f EXCEPT !.batch = [pc |-> "running",
                                       operations |-> operations,
                                       index |-> i,
                                       call |-> c.call,
                                       performed |-> Append(performed, i)]],
                  c)
    ELSE batchLoop(f, operations, i + 1, performed)

\* batchOperations up to its first await, or to its return
BatchOperations(operations) ==
    /\ fs.batch.pc # "running"
    /\ fs.inflight = {}
    /\ fs' = batchLoop(fs, operations, 1, <<>>)
    /\ UNCHANGED <<registryVars, outcomes, agent, patch, bridge, watch, disk>>

\* the operation the batch awaits is answered: the batch runs on to the
\* next operation or to its return, or the operation's error ends it
BatchSettles(answer) ==
    LET call == fs.batch.call
        f    == settled(fs, call, answer)
    IN
    /\ fs.batch.pc = "running"
    /\ answer \in FileSystemAnswers(call)
    /\ fs' = IF f.inflight # {}
             THEN [f EXCEPT !.batch.call = CHOOSE c \in f.inflight : TRUE]
             ELSE IF answer.kind = "rejected"
             THEN [f EXCEPT !.batch = [pc |-> "thrown",
                                       operations |-> fs.batch.operations,
                                       performed |-> fs.batch.performed]]
             ELSE batchLoop(f, fs.batch.operations, fs.batch.index + 1,
                            fs.batch.performed)
    /\ UNCHANGED <<registryVars, outcomes, agent, patch, bridge, watch, disk>>

NextBatch ==
    \/ \E operations \in SeqsUpTo(BatchOps, MaxOps) :
          BatchOperations(operations)
    \/ \E answer \in {Reject(Err("ENOENT")), Fulfil(Undefined),
                       Fulfil([exists |-> TRUE]), Fulfil([exists |-> FALSE])}
                      \cup { Fulfil(Str(c)) : c \in FileContents } :
          BatchSettles(answer)

NextFs ==
    \/ \E path \in FsPaths : ReadFile(path)
    \/ \E path \in FsPaths, content \in FileContents : WriteFile(path, content)
    \/ \E path \in FsPaths : Delete(path)
    \/ \E path \in FsPaths : CreateDirectory(path)
    \/ \E pair \in FsPathPairs : Move(pair.from, pair.to)
    \/ \E pair \in FsPathPairs : Copy(pair.from, pair.to)
    \/ \E call \in fs.inflight :
          \E answer \in FileSystemAnswers(call) :
              FileSystemSettles(call, answer)
    \/ ClearCache


(***************************************************************************)
(* AutonomousBridge.retry.  The operation is the caller's: each attempt    *)
(* ends with a value or with an error.                                     *)
(***************************************************************************)
\* the defaults of maxRetries and baseDelay
DefaultMaxRetries == 3

DefaultBaseDelay == 1000

\* the largest maxRetries retry is called with
MaxRetries == 3

\* Math.pow(2, n)
RECURSIVE pow2(_)
pow2(n) == IF n = 0 THEN 1 ELSE 2 * pow2(n - 1)

\* the value of a parameter that has a default
OrDefault(v, default) == IF v = Undefined THEN default ELSE v.number

\* the arguments of retry after the operation
RetryCalls ==
    { [maxRetries |-> m, baseDelay |-> d] :
        m \in {Undefined} \cup { Num(n) : n \in 0..MaxRetries },
        d \in {Undefined, Num(50)} }

\* how an attempt of the operation may end
OperationOutcomes ==
    { Fulfil(Str("page")),
      Reject(Err("timeout")),
      Reject(Err("detached")) }

\* the bridge as constructed
InitBridge == bridge = [pc |-> "constructed"]

\* a retry call about to be made, with its arguments
InitBridgeCall ==
    bridge \in { [pc          |-> "call",
                  maxRetries  |-> OrDefault(c.maxRetries, DefaultMaxRetries),
                  baseDelay   |-> OrDefault(c.baseDelay, DefaultBaseDelay),
                  attempt     |-> 0,
                  lastError   |-> Null,
                  invocations |-> 0,
                  values      |-> <<>>,
                  errors      |-> <<>>,
                  waits       |-> <<>>,
                  ret         |-> None] : c \in RetryCalls }

\* retryHasAttempt with the bug "one attempt more than maxRetries"
retryHasAttempt_inclusive(attempt, maxRetries) == attempt <= maxRetries

\* the test of the for loop
retryHasAttempt(attempt, maxRetries) == attempt < maxRetries

\* baseDelay * Math.pow(2, attempt)
retryDelay(baseDelay, attempt) == baseDelay * pow2(attempt)

\* the for loop from its test to the await of the operation, or past its
\* end to `throw lastError`
retryLoop(b) ==
    IF retryHasAttempt(b.attempt, b.maxRetries)
    THEN [b EXCEPT !.pc = "operation", !.invocations = @ + 1]
    ELSE [b EXCEPT !.pc = "thrown", !.ret = Thrown(b.lastError)]

\* retry up to its first await
Retry ==
    /\ bridge.pc = "call"
    /\ bridge' = retryLoop(bridge)
    /\ UNCHANGED <<registryVars, outcomes, agent, patch, fs, watch, disk>>

\* the awaited attempt ends: retry returns its value, or keeps its error and
\* awaits the delay
OperationSettles(outcome) ==
    /\ bridge.pc = "operation"
    /\ bridge' =
         IF outcome.kind = "fulfilled"
         THEN [bridge EXCEPT !.pc = "returned",
                             !.values = Append(@, outcome.value),
                             !.ret = Returned(outcome.value)]
         ELSE [bridge EXCEPT !.pc = "delay",
                             !.lastError = outcome.value,
                             !.errors = Append(@, outcome.value),
                             !.waits = Append(@, retryDelay(bridge.baseDelay,
                                                            bridge.attempt))]
    /\ UNCHANGED <<registryVars, outcomes, agent, patch, fs, watch, disk>>

\* the delay has passed: attempt++ and the loop runs on
DelayElapses ==
    /\ bridge.pc = "delay"
    /\ bridge' = retryLoop([bridge EXCEPT !.attempt = @ + 1])
    /\ UNCHANGED <<registryVars, outcomes, agent, patch, fs, watch, disk>>

NextRetry ==
    \/ Retry
    \/ \E outcome \in OperationOutcomes : OperationSettles(outcome)
    \/ DelayElapses

(***************************************************************************)
(* The files of the device.  When they change only through the engine,    *)
(* the file system answers each awaited call from the files it holds.      *)
(***************************************************************************)
\* the paths and the contents the cached operations are called with: a
\* file of the workspace, a directory and a file of the directory
CachePaths == { <<"a">>, <<"d">>, <<"d", "/", "a">> }

\* the source and destination paths move and copy are called with
CachePathPairs ==
    { [from |-> <<"d">>, to |-> <<"a">>],
      [from |-> <<"a">>, to |-> <<"d">>],
      [from |-> <<"d", "/", "a">>, to |-> <<"a">>] }

CacheContents == {"c1", "c2"}

\* the files at fullPath: the file itself, or the files of the directory
diskUnder(d, fullPath) ==
    { p \in DOMAIN d : p = fullPath \/ startsWith(p, fullPath \o <<"/">>) }

\* fullPath is a directory, and fullPath lies below a file
diskIsDirectory(d, fullPath) == diskUnder(d, fullPath) \ {fullPath} # {}

diskBelowFile(d, fullPath) ==
    \E p \in DOMAIN d : startsWith(fullPath, p \o <<"/">>)

\* the files once content is written at fullPath
diskWrite(d, fullPath, content) ==
    [p \in DOMAIN d \cup {fullPath} |-> IF p = fullPath THEN content ELSE d[p]]

\* the files once fullPath is removed: a directory goes with its files
diskRemove(d, fullPath) ==
    [p \in DOMAIN d \ diskUnder(d, fullPath) |-> d[p]]

\* the files once those at from are placed at to, replacing what to held;
\* a move takes them away from from, a copy keeps them
diskPlace(d, from, to, keep) ==
    LET placed == diskUnder(d, from)
        target(p) == to \o SubSeq(p, Len(from) + 1, Len(p))
        rest == IF keep THEN diskRemove(d, to)
                ELSE diskRemove(diskRemove(d, to), from)
    IN  [q \in DOMAIN rest \cup { target(p) : p \in placed } |->
            IF \E p \in placed : target(p) = q
            THEN d[CHOOSE p \in placed : target(p) = q]
            ELSE rest[q]]

\* the workspace holds a directory with one file
InitDisk ==
    disk = diskWrite(<<>>, resolvePath(<<"/", "w">>, <<"d", "/", "a">>), "c1")

\* the answers the file system may give to the awaited call: a file that
\* is not there cannot be read, moved or copied, a directory cannot be read
\* or written as a file, nothing is placed inside itself or below a file,
\* and a destination that exists is replaced or refused
diskAnswers(d, call) ==
    CASE call.op = "readFile" ->
            IF call.fullPath \in DOMAIN d
            THEN {Fulfil(Str(d[call.fullPath]))}
            ELSE {Reject(Err("ENOENT"))}
      [] call.op = "writeFile" ->
            IF diskIsDirectory(d, call.fullPath)
               \/ diskBelowFile(d, call.fullPath)
            THEN {Reject(Err("EISDIR"))}
            ELSE {Fulfil(Undefined)}
      [] call.op = "delete" /\ call.stage = "getInfoAsync" ->
            {Fulfil([exists |-> diskUnder(d, call.fullPath) # {}])}
      [] call.op \in {"move", "copy"} ->
            IF diskUnder(d, call.fullPath) = {}
               \/ startsWith(call.fullDestination, call.fullPath \o <<"/">>)
               \/ startsWith(call.fullPath, call.fullDestination \o <<"/">>)
               \/ diskBelowFile(d, call.fullDestination)
            THEN {Reject(Err("ENOENT"))}
            ELSE IF diskUnder(d, call.fullDestination) # {}
            THEN {Fulfil(Undefined), Reject(Err("EEXIST"))}
            ELSE {Fulfil(Undefined)}
      [] OTHER -> {Fulfil(Undefined)}

\* the files once the call is answered
diskAfter(d, call, answer) ==
    IF answer.kind = "rejected" THEN d
    ELSE CASE call.op = "writeFile" ->
                diskWrite(d, call.fullPath, call.content)
           [] call.op = "delete" /\ call.stage = "deleteAsync" ->
                diskRemove(d, call.fullPath)
           [] call.op = "move" ->
                diskPlace(d, call.fullPath, call.fullDestination, FALSE)
           [] call.op = "copy" ->
                diskPlace(d, call.fullPath, call.fullDestination, TRUE)
           [] OTHER -> d

\* the awaited call is answered from the files, and the operation runs on
DiskSettles(call, answer) ==
    /\ call \in fs.inflight
    /\ answer \in diskAnswers(disk, call)
    /\ fs' = settled(fs, call, answer)
    /\ disk' = diskAfter(disk, call, answer)
    /\ UNCHANGED <<registryVars, outcomes, agent, patch, bridge, watch>>

\* no operation is under way: the next call follows the last one's return
Sequential == fs.inflight = {}

\* the operations called one after the other, on files only they change
NextCache ==
    \/ \E path \in CachePaths : Sequential /\ ReadFile(path)
    \/ \E path \in CachePaths, content \in CacheContents :
          Sequential /\ WriteFile(path, content)
    \/ \E path \in CachePaths : Sequential /\ Delete(path)
    \/ \E pair \in CachePathPairs : Sequential /\ Move(pair.from, pair.to)
    \/ \E pair \in CachePathPairs : Sequential /\ Copy(pair.from, pair.to)
    \/ \E call \in fs.inflight :
          \E answer \in diskAnswers(disk, call) : DiskSettles(call, answer)
    \/ Sequential /\ ClearCache

(***************************************************************************)
(* WorkspaceEngine.watchFile: the first read, the polls of the interval    *)
(* and the cleanup function.  The watched file is changed by its writers.  *)
(***************************************************************************)
\* how many times the interval fires
MaxPolls == 3

\* no watchFile call yet
InitWatch == watch = [pc |-> "idle"]

\* watchFile up to the await of its first readFile
WatchFile(path) ==
    LET c == readFileCall(fs.workspacePath, path) IN
    /\ watch.pc = "idle"
    /\ fs.inflight = {}
    /\ fs' = awaiting(fs, c)
    /\ watch' = [pc |-> "reading", path |-> path, call |-> c.call]
    /\ UNCHANGED <<registryVars, outcomes, agent, patch, bridge, disk>>

\* the first read is answered: its error is watchFile's, its content is
\* lastContent, setInterval starts the polls and the cleanup is returned
WatchFileSettles ==
    LET answer == CHOOSE a \in diskAnswers(disk, watch.call) : TRUE IN
    /\ watch.pc = "reading"
    /\ fs' = settled(fs, watch.call, answer)
    /\ watch' = IF answer.kind = "rejected"
                THEN [pc |-> "thrown", path |-> watch.path]
                ELSE [pc          |-> "watching",
                      path        |-> watch.path,
                      call        |-> watch.call,
                      lastContent |-> answer.value,
                      interval    |-> TRUE,
                      polling     |-> FALSE,
                      polls       |-> 0,
                      callbacks   |-> <<>>]
    /\ UNCHANGED <<registryVars, outcomes, agent, patch, bridge, disk>>

\* the interval fires: the poll runs to the await of its readFile
Poll ==
    /\ watch.pc = "watching"
    /\ watch.interval
    /\ ~watch.polling
    /\ watch.polls < MaxPolls
    /\ fs' = awaiting(fs, [call |-> watch.call, paths |-> {watch.call.fullPath}])
    /\ watch' = [watch EXCEPT !.polling = TRUE, !.polls = @ + 1]
    /\ UNCHANGED <<registryVars, outcomes, agent, patch, bridge, disk>>

\* the poll's read is answered: a content other than lastContent goes to
\* the callback, an error is logged
PollSettles ==
    LET answer == CHOOSE a \in diskAnswers(disk, watch.call) : TRUE IN
    /\ watch.pc = "watching"
    /\ watch.polling
    /\ fs' = settled(fs, watch.call, answer)
    /\ watch' = IF answer.kind = "fulfilled"
                   /\ answer.value # watch.lastContent
                THEN [watch EXCEPT
                        !.polling = FALSE,
                        !.lastContent = answer.value,
                        !.callbacks = Append(@,
                            [content  |-> answer.value,
                             last     |-> watch.lastContent,
                             interval |-> watch.interval])]
                ELSE [watch EXCEPT !.polling = FALSE]
    /\ UNCHANGED <<registryVars, outcomes, agent, patch, bridge, disk>>

\* the cleanup function: clearInterval
Cleanup ==
    /\ watch.pc = "watching"
    /\ watch.interval
    /\ watch' = [watch EXCEPT !.interval = FALSE]
    /\ UNCHANGED <<registryVars, outcomes, agent, patch, fs, bridge, disk>>

\* a writer of the watched file changes it, or removes it
FileChanges(fullPath, content) ==
    /\ ~diskIsDirectory(disk, fullPath)
    /\ ~diskBelowFile(disk, fullPath)
    /\ ~(fullPath \in DOMAIN disk /\ disk[fullPath] = content)
    /\ disk' = diskWrite(disk, fullPath, content)
    /\ UNCHANGED <<registryVars, outcomes, agent, patch, fs, bridge, watch>>

FileRemoved(fullPath) ==
    /\ fullPath \in DOMAIN disk
    /\ disk' = diskRemove(disk, fullPath)
    /\ UNCHANGED <<registryVars, outcomes, agent, patch, fs, bridge, watch>>

NextWatch ==
    \/ \E path \in CachePaths : WatchFile(path)
    \/ WatchFileSettles
    \/ Poll
    \/ PollSettles
    \/ Cleanup
    \/ \E path \in CachePaths, content \in CacheContents :
          FileChanges(resolvePath(fs.workspacePath, path), content)
    \/ \E path \in CachePaths :
          FileRemoved(resolvePath(fs.workspacePath, path))

(***************************************************************************)
(* The specifications.                                                     *)
(***************************************************************************)
\* the SuperAgent as constructed
InitAll ==
    /\ Init /\ InitOutcomes /\ InitAgent /\ InitPatch /\ InitFs
    /\ InitBridge /\ InitWatch /\ InitDisk

\* the operations of the registry
Next ==
    \/ \E tool \in UserTools : RegisterTool(tool.schema, tool.handler)
    \/ GetTools
    \/ \E name \in ToolNames : GetTool(name)
    \/ \E call \in ToolCalls : ExecuteTool(call)
    \/ \E rec \in BagToSet(pending) : HandlerSettles(rec)
    \/ \E v \in ValidateCalls : ValidateParameters(v.toolName, v.parameters)

Spec ==
    InitAll /\ [][Next /\ UNCHANGED <<outcomes, agent, patch, fs,
                                        bridge, watch, disk>>]_vars

\* executeTool calls against the registry as constructed
SpecPure == InitAll /\ [][NextPure]_vars

\* executeTask calls of two tasks
SpecAgent == InitAll /\ [][NextAgent]_vars

\* executeTask calls and switchProvider calls
SpecProvider == InitAll /\ [][NextProvider]_vars

\* the patch engine called with each content, operation and fallback
InitPatchCalls ==
    /\ Init /\ InitOutcomes /\ InitAgent /\ InitPatchCall /\ InitFs
    /\ InitBridge /\ InitWatch /\ InitDisk

SpecPatch == InitPatchCalls /\ [][NextPatch]_vars

\* the operations of the workspace engine
SpecFs == InitAll /\ [][NextFs]_vars

\* batchOperations calls
SpecBatch == InitAll /\ [][NextBatch]_vars

\* the cached operations in sequence, on files only they change
SpecCache == InitAll /\ [][NextCache]_vars

\* a watchFile call, its polls and its cleanup
SpecWatch == InitAll /\ [][NextWatch]_vars

\* a retry call with each of its arguments
InitRetryCalls ==
    /\ Init /\ InitOutcomes /\ InitAgent /\ InitPatch /\ InitFs
    /\ InitBridgeCall /\ InitWatch /\ InitDisk

SpecRetry == InitRetryCalls /\ [][NextRetry]_vars

\* the same, where the call is made, every attempt ends and every timer fires
SpecRetryFair == InitRetryCalls /\ [][NextRetry]_vars /\ WF_vars(NextRetry)

(***************************************************************************)
(* Properties.  ToolSchemaSystem.executeTool is the specification's        *)
(* `execute`, validateParameters its `validate`, getTools its `list`,      *)
(* registerTool its `register`.                                            *)
(***************************************************************************)
IsExecuteReturn == lastReturn.op = "executeTool"

\* the own property names of a parameter mapping
OwnKeys(parameters) == DOMAIN parameters.object

\* the required set of the schema most recently registered under a name
RequiredSet(name) ==
    LET schema == LatestRegistration(name).schema IN
    IF "required" \in DOMAIN schema.parameters
    THEN {schema.parameters.required[i] :
              i \in 1..Len(schema.parameters.required)}
    ELSE {}

\* the position in the registerTool history of the first and of the most
\* recent registration of a name
FirstRegistrationIndex(name) ==
    CHOOSE i \in 1..Len(AllRegistrations) :
        /\ AllRegistrations[i].schema.name = name
        /\ \A j \in 1..(i - 1) : AllRegistrations[j].schema.name # name

LastRegistrationIndex(name) ==
    CHOOSE i \in 1..Len(AllRegistrations) :
        /\ AllRegistrations[i].schema.name = name
        /\ \A j \in (i + 1)..Len(AllRegistrations) :
               AllRegistrations[j].schema.name # name

RegisteredNames ==
    {AllRegistrations[i].schema.name : i \in 1..Len(AllRegistrations)}

\* C1 as stated: executeTool for a name that was never registered returns
\* {id, success: false, error: "tool not found: <name>"} and invokes no
\* handler.
C1_AsStated ==
    (IsExecuteReturn /\ ~lastReturn.rec.registered) =>
        /\ lastReturn.ret =
              Returned([id |-> lastReturn.rec.call.id, success |-> FALSE,
                        error |-> "tool not found: "
                                      \o lastReturn.rec.call.name])
        /\ lastReturn.rec.invoked = <<>>

\* C1 (amended): executeTool for a name that was never registered returns
\* {id, success: false, error: "Tool not found: <name>"}, the message
\* starting with a capital T, and invokes no handler.
C1_ToolNotFound ==
    (IsExecuteReturn /\ ~lastReturn.rec.registered) =>
        /\ lastReturn.ret =
              Returned([id |-> lastReturn.rec.call.id, success |-> FALSE,
                        error |-> "Tool not found: "
                                      \o lastReturn.rec.call.name])
        /\ lastReturn.rec.invoked = <<>>

C1_Witness ==
    /\ IsExecuteReturn
    /\ ~lastReturn.rec.registered
    /\ lastReturn.rec.call.name = "missing"

\* the message executeTool reports for a thrown value: an Error's message,
\* the string form of anything else
MessageOf(thrown) ==
    IF IsError(thrown) THEN thrown.error
    ELSE IF thrown = Num(404) THEN "404"
    ELSE String(thrown)

\* C2: when the handler of a registered tool throws synchronously or rejects,
\* executeTool returns {id, success: false, error: <the error's message>} to
\* its caller and does not throw.
C2_HandlerFailureIsReported ==
    (/\ IsExecuteReturn
     /\ lastReturn.rec.registered
     /\ lastReturn.rec.completion.kind \in {"throw", "rejected"}) =>
        lastReturn.ret =
            Returned([id |-> lastReturn.rec.call.id, success |-> FALSE,
                      error |-> MessageOf(lastReturn.rec.completion.value)])

C2_Witness ==
    /\ IsExecuteReturn
    /\ lastReturn.rec.completion.kind = "rejected"
    /\ lastReturn.rec.completion.value = Num(404)
    /\ lastReturn.ret.return.error = "404"

\* C3: when the handler of a registered tool is fulfilled with a value v,
\* executeTool returns {id, success: true, result: v}, whatever v says.
C3_HandlerValueIsSuccess ==
    (/\ IsExecuteReturn
     /\ lastReturn.rec.registered
     /\ lastReturn.rec.completion.kind = "fulfilled") =>
        lastReturn.ret =
            Returned([id |-> lastReturn.rec.call.id, success |-> TRUE,
                      result |-> lastReturn.rec.completion.value])

C3_Witness ==
    /\ IsExecuteReturn
    /\ lastReturn.rec.completion =
          Fulfil(Obj([success |-> Bool(FALSE), error |-> Str("disk full")]))
    /\ lastReturn.ret.return.success = TRUE

\* C4: for a parameter mapping, validateParameters returns false if and only
\* if the name is not registered or a name of the schema's required set is
\* absent from the mapping, and true otherwise.
C4_ValidateIffRequiredPresent ==
    (/\ lastReturn.op = "validateParameters"
     /\ IsObject(lastReturn.parameters)) =>
        LET missing ==
                \/ ~EverRegistered(lastReturn.toolName)
                \/ \E r \in RequiredSet(lastReturn.toolName) :
                       r \notin OwnKeys(lastReturn.parameters)
        IN  lastReturn.ret = Returned(~missing)

\* C5: no operation of the registry raises to its caller, whatever the tool
\* name and the parameters value, absent parameters included.
C5_RegistryNeverRaises ==
    lastReturn.op \in {"registerTool", "getTools", "getTool", "executeTool",
                       "validateParameters"} =>
        "throw" \notin DOMAIN lastReturn.ret

\* C6: registering under a registered name raises nothing and the last
\* registration wins: an executeTool for a registered name invokes, once and
\* with the call's parameters, the handler most recently registered for it,
\* and getTool returns the schema most recently registered.
C6_LastRegistrationWins ==
    /\ lastReturn.op = "registerTool" =>
          /\ lastReturn.ret = Returned(Undefined)
          /\ MapGet(handlers, lastReturn.schema.name) = lastReturn.handler
          /\ MapGet(tools, lastReturn.schema.name) = lastReturn.schema
    /\ (IsExecuteReturn /\ lastReturn.rec.registered) =>
          lastReturn.rec.invoked =
              <<[handler |-> lastReturn.rec.latest,
                 params |-> lastReturn.rec.call.parameters]>>
    /\ (lastReturn.op = "getTool" /\ EverRegistered(lastReturn.name)) =>
          lastReturn.ret =
              Returned(LatestRegistration(lastReturn.name).schema)

C6_Witness ==
    /\ IsExecuteReturn
    /\ Len(registrations) = 2
    /\ registrations[1] = [schema |-> EchoSchema, handler |-> Fn("echoHandler")]
    /\ registrations[2].schema.name = "echo"
    /\ lastReturn.rec.call.name = "echo"
    /\ lastReturn.rec.invoked # <<>>
    /\ lastReturn.rec.invoked[1].handler = registrations[2].handler
    /\ registrations[2].handler # Fn("echoHandler")

\* C7: getTools returns exactly one schema for each name registerTool was
\* ever called with, and it is the schema of the most recent call.
C7_ListOnePerName ==
    lastReturn.op = "getTools" =>
        LET list == lastReturn.ret.return IN
        /\ {list[i].name : i \in 1..Len(list)} = RegisteredNames
        /\ \A i, j \in 1..Len(list) : list[i].name = list[j].name => i = j
        /\ \A i \in 1..Len(list) :
               list[i] = LatestRegistration(list[i].name).schema

C7_Witness ==
    /\ lastReturn.op = "getTools"
    /\ Len(registrations) = 2
    /\ registrations[1].schema = ExecuteCommandSchemaV2
    /\ registrations[2].schema = EchoSchema
    /\ Len(lastReturn.ret.return) = Len(DefaultTools) + 1

\* C8 as stated: getTools lists the schemas in the order of the
\* registrations that put them there: a schema registered earlier precedes
\* every schema registered later, re-registrations included.
C8_AsStated ==
    lastReturn.op = "getTools" =>
        LET list == lastReturn.ret.return IN
        \A i, j \in 1..Len(list) :
            i < j => LastRegistrationIndex(list[i].name)
                        < LastRegistrationIndex(list[j].name)

\* C8 (amended): getTools lists the schemas in the order in which their names
\* were first registered; registering again under a name replaces the schema
\* and keeps its place in the list.
C8_ListInFirstRegistrationOrder ==
    lastReturn.op = "getTools" =>
        LET list == lastReturn.ret.return IN
        \A i, j \in 1..Len(list) :
            i < j => FirstRegistrationIndex(list[i].name)
                        < FirstRegistrationIndex(list[j].name)

C8_Witness ==
    /\ lastReturn.op = "getTools"
    /\ Len(registrations) = 2
    /\ registrations[1].schema = EchoSchema
    /\ registrations[2].schema = ExecuteCommandSchemaV2
    /\ lastReturn.ret.return[1] = ExecuteCommandSchemaV2

\* C9: the names with a schema are the names with a handler, a name has one
\* schema (its own) and one handler, and a handler is invoked only for a call
\* whose name was registered when the call was made.
C9_SchemaAndHandlerTogether ==
    /\ MapKeys(tools) = MapKeys(handlers)
    /\ \A i, j \in 1..Len(tools) : tools[i].key = tools[j].key => i = j
    /\ \A i, j \in 1..Len(handlers) :
           handlers[i].key = handlers[j].key => i = j
    /\ \A i \in 1..Len(tools) : tools[i].value.name = tools[i].key
    /\ \A i \in 1..Len(handlers) : "function" \in DOMAIN handlers[i].value
    /\ \A rec \in BagToSet(pending) : rec.registered
    /\ (IsExecuteReturn /\ lastReturn.rec.invoked # <<>>) =>
          lastReturn.rec.registered

C9_Witness ==
    /\ IsExecuteReturn
    /\ lastReturn.rec.invoked # <<>>
    /\ registrations # <<>>
    /\ lastReturn.rec.call.name = registrations[Len(registrations)].schema.name

\* C10: every outcome executeTool returns carries the id of its call: for a
\* tool that is not found, for a handler that fails and for a handler that
\* succeeds.
C10_OutcomeEchoesCallId ==
    IsExecuteReturn =>
        /\ "return" \in DOMAIN lastReturn.ret
        /\ lastReturn.ret.return.id = lastReturn.rec.call.id

C10_Witness ==
    /\ IsExecuteReturn
    /\ lastReturn.rec.completion.kind = "fulfilled"
    /\ lastReturn.rec.call.id = "5"
    /\ lastReturn.ret.return.id = "5"

\* what a reader of an outcome finds in it: a result value (a `result` that is
\* not undefined), an error message
ResultPresent(outcome) ==
    "result" \in DOMAIN outcome /\ outcome.result # Undefined

ErrorPresent(outcome) == "error" \in DOMAIN outcome

\* C11 as stated: in every outcome of executeTool a result value is present
\* if and only if success is true, and an error message if and only if
\* success is false.
C11_AsStated ==
    IsExecuteReturn =>
        LET outcome == lastReturn.ret.return IN
        /\ ResultPresent(outcome) <=> outcome.success
        /\ ErrorPresent(outcome) <=> ~outcome.success

\* C11 (amended): an error message is present if and only if success is
\* false; a result value is present only if success is true, and on success
\* `result` is the value the handler was fulfilled with, so that it is
\* undefined when the handler returned undefined.
C11_ResultOnlyOnSuccess ==
    IsExecuteReturn =>
        LET outcome == lastReturn.ret.return IN
        /\ ErrorPresent(outcome) <=> ~outcome.success
        /\ ResultPresent(outcome) => outcome.success
        /\ "result" \in DOMAIN outcome <=> outcome.success
        /\ outcome.success =>
              outcome.result = lastReturn.rec.completion.value

C11_Witness ==
    /\ IsExecuteReturn
    /\ lastReturn.ret.return.success
    /\ lastReturn.rec.completion = Fulfil(Undefined)
    /\ ~ResultPresent(lastReturn.ret.return)

\* C12: an executeTool call invokes the handler exactly once when the tool
\* is registered and not at all when it is not; a handler that fails is not
\* invoked again.
C12_OneInvocationPerCall ==
    /\ IsExecuteReturn =>
          Len(lastReturn.rec.invoked)
              = (IF lastReturn.rec.registered THEN 1 ELSE 0)
    /\ \A rec \in BagToSet(pending) : Len(rec.invoked) = 1

C12_Witness ==
    /\ IsExecuteReturn
    /\ lastReturn.rec.completion.kind = "throw"
    /\ ~lastReturn.ret.return.success
    /\ Len(lastReturn.rec.invoked) = 1

\* C13: the two maps change only in a step of registerTool: executeTool (its
\* call and its return), validateParameters, getTools and getTool leave
\* them as they are.
C13_OnlyRegisterWrites ==
    [][registrations' = registrations
          => (tools' = tools /\ handlers' = handlers)]_vars

C13_Witness ==
    /\ IsExecuteReturn
    /\ ~lastReturn.ret.return.success
    /\ lastReturn.rec.registered
    /\ registrations # <<>>
    /\ MapKeys(tools) = RegisteredNames

\* C14: executeTool does not consult validateParameters: for a registered
\* tool it invokes the handler with the call's parameters also when
\* validateParameters returns false for the call.
C14_ExecuteDoesNotGate ==
    (/\ IsExecuteReturn
     /\ lastReturn.rec.registered
     /\ lastReturn.rec.valid = Returned(FALSE)) =>
        /\ Len(lastReturn.rec.invoked) >= 1
        /\ \A i \in 1..Len(lastReturn.rec.invoked) :
               lastReturn.rec.invoked[i].params
                   = lastReturn.rec.call.parameters

C14_Witness ==
    /\ IsExecuteReturn
    /\ lastReturn.rec.call.name = "echo"
    /\ lastReturn.rec.call.parameters = Obj(<<>>)
    /\ lastReturn.rec.valid = Returned(FALSE)
    /\ lastReturn.rec.invoked # <<>>
    /\ lastReturn.ret.return.success

\* what the claim compares of two outcomes: the success flag and the result
SuccessAndResult(outcome) ==
    [success |-> outcome.success,
     result  |-> IF "result" \in DOMAIN outcome
                 THEN outcome.result ELSE Undefined]

C16_SequentialDispatch ==
    \A id \in TaskIds :
        LET t == agent.tasks[id] IN
        /\ t.dispatched = [i \in 1..Len(t.dispatched) |-> i]
        /\ Len(t.dispatched) <= Len(Emitted(t))
        /\ Cardinality(t.inflight) <= 1
        /\ \A call \in t.inflight :
              /\ call.index = Len(t.dispatched)
              /\ Len(t.toolCalls) = call.index - 1

C16_Witness ==
    \E id, other \in TaskIds :
        /\ id # other
        /\ Len(agent.tasks[id].dispatched) = 2
        /\ agent.tasks[id].inflight # {}
        /\ agent.tasks[other].inflight # {}

C18_SwitchedProviderIsUsed ==
    /\ \A id \in TaskIds :
          LET t == agent.tasks[id] IN
          (t.pc = "llm" /\ t.switched # None) =>
              /\ t.sent.provider = t.switched.providerId
              /\ t.sent.model = t.switched.model
    /\ (agent.lastSwitch # None /\ ~agent.lastSwitch.eligible) =>
          agent.promptCompiler = agent.lastSwitch.before

\* C19: createSafePatch returns applyPatch(content, operation) when
\* validatePatch accepts; when it rejects, it returns the fallback supplied
\* (whatever string it is, the empty string included), and the content
\* unchanged when no fallback is supplied.
C19_SafePatchFallback ==
    patch.op = "createSafePatch" =>
        patch.ret = Returned(Str(
            IF validatePatch(patch.content, patch.operation)
            THEN applyPatch(patch.content, patch.operation)
            ELSE IF patch.fallback # Undefined
                 THEN patch.fallback.string
                 ELSE patch.content))

\* the segments of a path: its parts between slashes, the empty ones dropped
PathSegments(p) == SelectSeq(splitPath(p), LAMBDA s : s # <<>>)

IsAbsolute(p) == p # <<>> /\ p[1] = "/"

\* the segments a path leads to once "." and ".." are followed; a relative
\* path that climbs above where it starts has escaped
RECURSIVE Follow(_, _, _)
Follow(stack, segments, absolute) ==
    IF segments = <<>> THEN [stack |-> stack, escaped |-> FALSE]
    ELSE IF Head(segments) = <<".">>
    THEN Follow(stack, Tail(segments), absolute)
    ELSE IF Head(segments) = <<".", ".">>
    THEN IF stack # <<>>
         THEN Follow(SubSeq(stack, 1, Len(stack) - 1), Tail(segments),
                     absolute)
         ELSE IF absolute THEN Follow(stack, Tail(segments), absolute)
         ELSE [stack |-> stack, escaped |-> TRUE]
    ELSE Follow(Append(stack, Head(segments)), Tail(segments), absolute)

\* whether p is the workspace path or a path beneath it
Beneath(p, workspacePath) ==
    LET to   == Follow(<<>>, PathSegments(p), IsAbsolute(p))
        root == Follow(<<>>, PathSegments(workspacePath),
                       IsAbsolute(workspacePath)).stack
    IN  /\ IsAbsolute(p) = IsAbsolute(workspacePath)
        /\ ~to.escaped
        /\ Len(to.stack) >= Len(root)
        /\ SubSeq(to.stack, 1, Len(root)) = root

\* C20: every path the WorkspaceEngine hands to the file system is the
\* workspace path or lies beneath it.
C20_PathsStayInWorkspace ==
    \A p \in fs.passed : Beneath(p, fs.workspacePath)

\* the operations C30 speaks of: a replace with an oldValue and a value, or
\* a delete with an oldValue
HasTarget(operation) ==
    \/ /\ operation.op = "replace"
       /\ Truthy(operation.oldValue)
       /\ Truthy(operation.value)
    \/ /\ operation.op = "delete"
       /\ Truthy(operation.oldValue)

\* whether applyPatch finds the line it replaces or deletes
FindsTarget(content, operation) ==
    \E i \in 1..Len(split(content)) :
        split(content)[i] = operation.oldValue.string

\* C30: for a replace or delete operation that has its oldValue (and value),
\* validatePatch returns true exactly when applyPatch finds its target line
\* (and so applies the operation), and when validatePatch returns false
\* applyPatch returns the content unchanged.
C30_ValidateAgreesWithApply ==
    (patch.op = "validatePatch" /\ HasTarget(patch.operation)) =>
        /\ (patch.ret = Returned(Bool(TRUE))) =
               FindsTarget(patch.content, patch.operation)
        /\ (patch.ret = Returned(Bool(FALSE))) =>
               (applyPatch(patch.content, patch.operation) = patch.content)

\* C25: executeTask returns a TaskResult whatever fails: its taskId is the
\* task's id, success is true exactly when error is absent, and success is
\* true only if the model answered and every emitted tool call succeeded.
C25_ExecuteTaskReturnsResult ==
    \A id \in TaskIds :
        LET t == agent.tasks[id] IN
        t.pc = "returned" =>
            /\ t.ret.taskId = id
            /\ t.ret.success = (t.ret.error = Undefined)
            /\ t.ret.success =>
                  /\ t.result # Undefined
                  /\ Len(t.ret.toolCalls) = Len(Emitted(t))
                  /\ \A i \in 1..Len(t.ret.toolCalls) :
                        t.ret.toolCalls[i].success

C25_Witness ==
    \E id, other \in TaskIds :
        /\ agent.tasks[id].pc = "returned"
        /\ agent.tasks[id].ret.success
        /\ Len(agent.tasks[id].ret.toolCalls) = 2
        /\ agent.tasks[other].pc = "returned"
        /\ agent.tasks[other].result = Undefined
        /\ agent.tasks[other].ret.error = Str("rate limit exceeded")

\* C26: in every TaskResult toolCalls is a prefix, in order, of the calls
\* the model emitted; every entry but the last succeeded; and if the last
\* failed, the task failed with the error "Tool <name> failed: <error>" and
\* no later emitted call was handed to the registry.
C26_ToolCallsArePrefix ==
    \A id \in TaskIds :
        LET t == agent.tasks[id]
            e == Emitted(t)
            r == t.ret.toolCalls
        IN  t.pc = "returned" =>
            /\ Len(r) <= Len(e)
            /\ \A i \in 1..Len(r) :
                  /\ r[i].toolName = e[i].toolName
                  /\ r[i].parameters = e[i].args
                  /\ (i < Len(r) => r[i].success)
            /\ (Len(r) >= 1 /\ ~r[Len(r)].success) =>
                  /\ ~t.ret.success
                  /\ t.ret.error =
                        Str("Tool " \o r[Len(r)].toolName \o " failed: "
                            \o r[Len(r)].error.string)
                  /\ Len(t.dispatched) = Len(r)

C26_Witness ==
    \E id \in TaskIds :
        /\ agent.tasks[id].pc = "returned"
        /\ Len(Emitted(agent.tasks[id])) = 2
        /\ Len(agent.tasks[id].ret.toolCalls) = 1
        /\ agent.tasks[id].ret.error =
              Str("Tool missing failed: Tool not found: missing")

\* C27: the call ids executeTask gives to the tool calls of one task are
\* pairwise distinct.
C27_CallIdsDistinct ==
    \A id \in TaskIds :
        LET ids == agent.tasks[id].ids IN
        \A i, j \in 1..Len(ids) : i # j => ids[i] # ids[j]

\* C22: retry invokes the operation at most maxRetries times, returns the
\* value of the first attempt that succeeds without invoking it again, and
\* ends when every attempt ends.
C22_RetryBounded ==
    /\ [](/\ bridge.invocations <= bridge.maxRetries
          /\ bridge.pc = "returned" =>
                /\ bridge.invocations = Len(bridge.errors) + 1
                /\ bridge.values = <<bridge.ret.return>>)
    /\ <>(bridge.pc \in {"returned", "thrown"})

C22_Witness ==
    /\ bridge.pc = "returned"
    /\ bridge.invocations = 2
    /\ bridge.maxRetries = 3

\* C23: retry returns a value the operation returned or throws an error the
\* operation raised, the one of the final attempt when all attempts fail.
C23_ThrowsOperationError ==
    /\ bridge.pc = "returned" =>
          \E i \in 1..Len(bridge.values) :
              bridge.ret = Returned(bridge.values[i])
    /\ bridge.pc = "thrown" =>
          /\ bridge.errors # <<>>
          /\ bridge.ret = Thrown(bridge.errors[Len(bridge.errors)])

\* C24: the wait after the failed attempt i (from 0) is baseDelay * 2^i,
\* and waits happen between attempts only: when retry ends, there is one
\* wait fewer than attempts.
C24_BackoffBetweenAttempts ==
    /\ \A i \in 1..Len(bridge.waits) :
          bridge.waits[i] = bridge.baseDelay * 2^(i - 1)
    /\ (bridge.pc \in {"returned", "thrown"} /\ bridge.invocations > 0) =>
          Len(bridge.waits) = bridge.invocations - 1

\* the operations C21 says a batch carries out: each read, write with a
\* content string, delete and create, and each move or copy with a
\* destination
Claimed(op) ==
    CASE op.type = "write" -> op.content # Undefined
      [] op.type \in {"move", "copy"} -> op.destination # Undefined
      [] OTHER -> TRUE

\* C21: when batchOperations returns normally it has carried out, one at a
\* time and in list order, every read, write (whatever its content string),
\* delete and create of the list and every move and copy that has a
\* destination.
C21_BatchPerformsEveryOperation ==
    fs.batch.pc = "returned" =>
        fs.batch.performed =
            SelectSeq([i \in 1..Len(fs.batch.operations) |-> i],
                      LAMBDA i : Claimed(fs.batch.operations[i]))

(***************************************************************************)
(* C28: when the files change only through the engine, after any sequence  *)
(* of readFile, writeFile, delete, move, copy and clearCache calls every   *)
(* cached file entry holds the content its file has on disk, and no entry  *)
(* remains for a path whose file is gone.                                  *)
(***************************************************************************)
C28_CacheMatchesDisk ==
    Sequential =>
        \A p \in DOMAIN fs.fileCache :
            fs.fileCache[p].type = "file" =>
                LET fullPath == resolvePath(fs.workspacePath, p) IN
                /\ fullPath \in DOMAIN disk
                /\ fs.fileCache[p].content = Str(disk[fullPath])

(***************************************************************************)
(* C29: once the cleanup function of watchFile has been called, the        *)
(* callback is never invoked again, even if a poll had already started     *)
(* its read; every invocation passes a content that differs from the       *)
(* content last observed.                                                  *)
(***************************************************************************)
C29_NoCallbackAfterCleanup ==
    watch.pc = "watching" =>
        \A i \in DOMAIN watch.callbacks :
            /\ watch.callbacks[i].interval
            /\ watch.callbacks[i].content # watch.callbacks[i].last

====
